---- MODULE Spec2Model ----
(***************************************************************************)
(* Socean stake-pool SDK: the fee accounting functions, the validator      *)
(* withdrawal allocator, the transaction sequence builder and the          *)
(* transaction sequence executor.                                          *)
(*                                                                         *)
(* Two specifications:                                                     *)
(*   CalcSpec  the pure functions of src/src/stake-pool/utils.ts and the   *)
(*             Numberu64 methods of src/src/stake-pool/types.ts applied    *)
(*             to inputs drawn by CalcInit;                                *)
(*   Spec      one top-level call (depositSol, depositStake or             *)
(*             withdrawStake): the builder's reads, the built sequence     *)
(*             and its execution by signAndSendTransactionSequence, or a   *)
(*             call of signAndSendTransactionSequence itself; the ledger   *)
(*             moves to the next epoch and executes what is submitted.     *)
(***************************************************************************)
EXTENDS Integers, Sequences, FiniteSets, TLC

VARIABLES
    \* ---- CalcSpec: one call of a pure function
    fn,          \* the function the caller invokes
    stakePool,   \* schema.StakePool snapshot handed to it
    validators,  \* ValidatorList.validators handed to it
    amount,      \* lamportsToStake / dropletsToUnstake / withdrawalAmountDroplets;
                 \* the Numberu64 a method is called on
    operand,     \* the argument of a Numberu64 method
    ret,         \* what the call produced: NotReturned, a value or a thrown error
    \* ---- Spec: one top-level call of the Socean client
    walletPublicKey,      \* walletAdapter.publicKey: "wallet" or "null"
    ledger,               \* the remote ledger: epoch, stake pool, validator list
    pc,                   \* where the call stands (the await it is suspended at)
    currEpoch,            \* the epoch read by the *Transactions builder
    currentEpoch,         \* the epoch read by updateValidatorListBalanceTransactions
    stakeAccountLamports, \* lamports of the stake account depositStake was given
    actionBatch,          \* the deposit / withdrawal batch, built before the stale check
    transactionSequence,  \* the built TransactionSequence
    batch,                \* index of the batch signSendConfirmTransactions works on
    txStatus,             \* per batch and transaction: how far it got
    res,                  \* signatures pushed by signAndSendTransactionSequence
    submitted             \* every transaction handed to sendAndConfirmRawTransaction, in order

calcVars == <<fn, stakePool, validators, amount, operand, ret>>
execVars == <<walletPublicKey, ledger, pc, currEpoch, currentEpoch,
              stakeAccountLamports, actionBatch, transactionSequence, batch,
              txStatus, res, submitted>>
vars == <<fn, stakePool, validators, amount, operand, ret, walletPublicKey, ledger, pc,
          currEpoch, currentEpoch, stakeAccountLamports, actionBatch,
          transactionSequence, batch, txStatus, res, submitted>>

(***************************************************************************)
(* Bounds of the model                                                     *)
(***************************************************************************)
MaxValidators == 2       \* validators in a drawn validator list
MaxAmount == 4           \* lamports / droplets of a drawn request
MaxFeeDenominator == 3   \* denominators of the drawn fees
MaxPoolLamports == 3     \* totalStakeLamports and poolTokenSupply of a drawn pool
MaxOperand == 9          \* a drawn Numberu64 and the argument of its method
MaxListLen == 6          \* validators in the validator list on the ledger
InitialEpoch == 1        \* epoch of the ledger when the call starts
MaxEpoch == 2            \* last epoch the ledger reaches while the call runs
LedgerPoolLamports == 10 \* totalStakeLamports and poolTokenSupply on the ledger

(***************************************************************************)
(* Program constants                                                       *)
(***************************************************************************)
MIN_ACTIVE_STAKE_LAMPORTS == 1000000
STAKE_ACCOUNT_RENT_EXEMPT_LAMPORTS == 2282880
U64_BYTES == 8
PERCENT == 100
MAX_VALIDATORS_TO_UPDATE == 5
MAX_WITHDRAWALS_PER_TX == 4

(***************************************************************************)
(* bn.js / Numberu64 arithmetic                                            *)
(***************************************************************************)
Abs(x) == IF x < 0 THEN -x ELSE x

\* BN.div: truncating division; BN.divmod asserts a non-zero divisor, which
\* every caller below tests with DivThrows before dividing.
BNdiv(a, b) ==
    IF (a < 0) = (b < 0) THEN Abs(a) \div Abs(b) ELSE -(Abs(a) \div Abs(b))

DivThrows(b) == b = 0

\* bn.toArray(): the big-endian bytes of the magnitude (the sign is not
\* encoded); zero is the one byte 0.
RECURSIVE ByteLen(_)
ByteLen(x) == IF x < 256 THEN 1 ELSE 1 + ByteLen(x \div 256)

\* bnToNumberu64Buffer asserts that the magnitude fits 8 bytes.
TooLarge(bn) == ByteLen(Abs(bn)) > U64_BYTES

\* Numberu64.cloneFromBN: fromBuffer(bnToNumberu64Buffer(bn)), the value
\* rebuilt from the magnitude bytes, so a negative BN comes back positive.
cloneFromBN(bn) == Abs(bn)

\* BN.sub, which Numberu64 inherits: the signed difference.
sub(a, b) == a - b

\* A subtraction that clamps nothing.
satSubUnclamped(a, b) == a - b

\* Numberu64.satSub
satSub(a, b) == IF a > b THEN cloneFromBN(sub(a, b)) ELSE 0

(***************************************************************************)
(* Results of a call: a value, or a thrown error                           *)
(***************************************************************************)
NotReturned == [err |-> "pending"]
Ok(v) == [err |-> "none", val |-> v]
Throw(e, why) == [err |-> e, reason |-> why]
AssertionFailed == Throw("AssertionError", "Assertion failed")

Returned(r) == r.err = "none"
Threw(r) == r.err \notin {"none", "pending"}

\* A division rounded down.
floorDiv(a, denominator) ==
    IF DivThrows(denominator) THEN AssertionFailed
    ELSE Ok(cloneFromBN(BNdiv(a, denominator)))

\* Numberu64.ceilDiv
ceilDiv(a, denominator) ==
    IF DivThrows(denominator) THEN AssertionFailed
    ELSE LET q == BNdiv(sub(a + denominator, 1), denominator)
         IN  IF TooLarge(q) THEN AssertionFailed ELSE Ok(cloneFromBN(q))

(***************************************************************************)
(* Fee accounting                                                          *)
(***************************************************************************)
hasFee(fee) == fee.numerator # 0 /\ fee.denominator # 0

\* calcDeposit with the fee levied on the lamports staked instead of on the
\* droplets minted.
calcDepositFeeOnLamports(lamportsToStake, pool, depositFee, referralFee) ==
    IF DivThrows(pool.totalStakeLamports) THEN AssertionFailed
    ELSE
    LET dropletsMinted ==
            BNdiv(lamportsToStake * pool.poolTokenSupply, pool.totalStakeLamports)
        feeBN == BNdiv(depositFee.numerator * lamportsToStake, depositFee.denominator)
        dropletsFeePaid == IF hasFee(depositFee) THEN cloneFromBN(feeBN) ELSE 0
        referralBN == BNdiv(dropletsFeePaid * referralFee, PERCENT)
        receivedBN == dropletsMinted - dropletsFeePaid
    IN  Ok([lamportsStaked   |-> lamportsToStake,
            dropletsReceived |-> cloneFromBN(receivedBN),
            dropletsFeePaid  |-> dropletsFeePaid,
            referralFeePaid  |-> cloneFromBN(referralBN)])

\* calcDeposit: droplets minted for a deposit, the deposit fee and the
\* referral share of that fee.
calcDeposit(lamportsToStake, pool, depositFee, referralFee) ==
    IF DivThrows(pool.totalStakeLamports) THEN AssertionFailed
    ELSE
    LET dropletsMinted ==
            BNdiv(lamportsToStake * pool.poolTokenSupply, pool.totalStakeLamports)
        feeBN == BNdiv(depositFee.numerator * dropletsMinted, depositFee.denominator)
        dropletsFeePaid == IF hasFee(depositFee) THEN cloneFromBN(feeBN) ELSE 0
        referralBN == BNdiv(dropletsFeePaid * referralFee, PERCENT)
        receivedBN == dropletsMinted - dropletsFeePaid
    IN  IF \/ hasFee(depositFee) /\ TooLarge(feeBN)
           \/ TooLarge(referralBN)
           \/ TooLarge(receivedBN)
        THEN AssertionFailed
        ELSE Ok([lamportsStaked   |-> lamportsToStake,
                 dropletsReceived |-> cloneFromBN(receivedBN),
                 dropletsFeePaid  |-> dropletsFeePaid,
                 referralFeePaid  |-> cloneFromBN(referralBN)])

calcSolDeposit(lamportsToStake, pool) ==
    calcDeposit(lamportsToStake, pool, pool.solDepositFee, pool.solReferralFee)

calcStakeDeposit(lamportsToStake, pool) ==
    calcDeposit(lamportsToStake, pool, pool.stakeDepositFee, pool.stakeReferralFee)

\* calcWithdrawalReceipt with a floor division in place of the ceiling.
calcWithdrawalReceiptFloorDiv(dropletsToUnstake, pool) ==
    LET withdrawalFee == pool.withdrawalFee
        feeBN == BNdiv(withdrawalFee.numerator * dropletsToUnstake,
                       withdrawalFee.denominator)
        dropletsFeePaid == IF hasFee(withdrawalFee) THEN cloneFromBN(feeBN) ELSE 0
        num == (dropletsToUnstake - dropletsFeePaid) * pool.totalStakeLamports
    IN  Ok([dropletsUnstaked |-> cloneFromBN(dropletsToUnstake),
            lamportsReceived |->
                IF num < pool.poolTokenSupply \/ pool.poolTokenSupply = 0 THEN 0
                ELSE cloneFromBN(BNdiv(num, pool.poolTokenSupply)),
            dropletsFeePaid  |-> dropletsFeePaid])

\* calcWithdrawalReceipt with the fee added to the droplets burnt instead
\* of levied on them.
calcWithdrawalReceiptFeeAdded(dropletsToUnstake, pool) ==
    LET withdrawalFee == pool.withdrawalFee
        dropletsFeePaid ==
            IF hasFee(withdrawalFee)
            THEN BNdiv(withdrawalFee.numerator * dropletsToUnstake,
                       withdrawalFee.denominator)
            ELSE 0
        num == (dropletsToUnstake + dropletsFeePaid) * pool.totalStakeLamports
    IN  Ok([dropletsUnstaked |-> dropletsToUnstake,
            lamportsReceived |->
                IF num < pool.poolTokenSupply \/ pool.poolTokenSupply = 0 THEN 0
                ELSE BNdiv(num + pool.poolTokenSupply - 1, pool.poolTokenSupply),
            dropletsFeePaid  |-> dropletsFeePaid])

\* calcWithdrawalReceipt: the fee is levied first, the rest is burnt and
\* converted to lamports with a ceiling division.
calcWithdrawalReceipt(dropletsToUnstake, pool) ==
    LET withdrawalFee == pool.withdrawalFee
        feeBN == BNdiv(withdrawalFee.numerator * dropletsToUnstake,
                       withdrawalFee.denominator)
        dropletsFeePaid == IF hasFee(withdrawalFee) THEN cloneFromBN(feeBN) ELSE 0
        dropletsBurnt == dropletsToUnstake - dropletsFeePaid
        num == dropletsBurnt * pool.totalStakeLamports
        lamportsBN == BNdiv(num + pool.poolTokenSupply - 1, pool.poolTokenSupply)
    IN  IF (hasFee(withdrawalFee) /\ TooLarge(feeBN)) \/ TooLarge(dropletsToUnstake)
        THEN AssertionFailed
        ELSE IF num < pool.poolTokenSupply \/ pool.poolTokenSupply = 0
        THEN Ok([dropletsUnstaked |-> cloneFromBN(dropletsToUnstake),
                 lamportsReceived |-> 0,
                 dropletsFeePaid  |-> dropletsFeePaid])
        ELSE IF TooLarge(lamportsBN) THEN AssertionFailed
        ELSE Ok([dropletsUnstaked |-> cloneFromBN(dropletsToUnstake),
                 lamportsReceived |-> cloneFromBN(lamportsBN),
                 dropletsFeePaid  |-> dropletsFeePaid])

\* An estimate that rounds the droplets up instead of down.
estDropletsRoundedUp(lamportsReceived, pool) ==
    IF DivThrows(pool.totalStakeLamports) THEN AssertionFailed
    ELSE
    LET withdrawalFee == pool.withdrawalFee
        estDropletsBurnt ==
            BNdiv(lamportsReceived * pool.poolTokenSupply + pool.totalStakeLamports - 1,
                  pool.totalStakeLamports)
        base == withdrawalFee.denominator - withdrawalFee.numerator
    IN  IF ~hasFee(withdrawalFee) THEN Ok(estDropletsBurnt)
        ELSE IF DivThrows(base) THEN AssertionFailed
        ELSE Ok(BNdiv(estDropletsBurnt * withdrawalFee.denominator + base - 1, base))

\* estDropletsUnstakedByWithdrawal: the approximate inverse of
\* calcWithdrawalReceipt.
estDropletsUnstakedByWithdrawal(lamportsReceived, pool) ==
    IF DivThrows(pool.totalStakeLamports) THEN AssertionFailed
    ELSE
    LET withdrawalFee == pool.withdrawalFee
        estDropletsBurnt ==
            BNdiv(lamportsReceived * pool.poolTokenSupply, pool.totalStakeLamports)
        base == withdrawalFee.denominator - withdrawalFee.numerator
        inflatedBN == BNdiv(estDropletsBurnt * withdrawalFee.denominator, base)
    IN  IF ~hasFee(withdrawalFee)
        THEN IF TooLarge(estDropletsBurnt) THEN AssertionFailed
             ELSE Ok(cloneFromBN(estDropletsBurnt))
        ELSE IF DivThrows(base) THEN AssertionFailed
        ELSE IF TooLarge(inflatedBN) THEN AssertionFailed
        ELSE Ok(cloneFromBN(inflatedBN))

(***************************************************************************)
(* Validator withdrawal allocator                                          *)
(***************************************************************************)
\* Addresses. A validator's stake accounts are program addresses derived
\* from its vote account (with the seed "transient" for the transient one).
reserveStake == [kind |-> "reserve", vote |-> 0]
getValidatorStakeAccount(voteAccount) == [kind |-> "active", vote |-> voteAccount]
getValidatorTransientStakeAccount(voteAccount) ==
    [kind |-> "transient", vote |-> voteAccount]

validatorTotalStake(validator) ==
    cloneFromBN(validator.activeStakeLamports + validator.transientStakeLamports)

\* The comparator of validatorsByTotalStakeAsc: negative, zero or positive.
compareTotalStake(validatorA, validatorB) ==
    LET a == validatorTotalStake(validatorA)
        b == validatorTotalStake(validatorB)
    IN  IF a = b THEN 0 ELSE IF a < b THEN -1 ELSE 1

\* Array.prototype.sort is stable: x goes behind every element that does
\* not compare greater than it.
RECURSIVE insertSorted(_, _)
insertSorted(sorted, x) ==
    IF sorted = <<>> THEN <<x>>
    ELSE IF compareTotalStake(sorted[Len(sorted)], x) <= 0
         THEN Append(sorted, x)
         ELSE Append(insertSorted(SubSeq(sorted, 1, Len(sorted) - 1), x),
                     sorted[Len(sorted)])

\* The validator list left in list order.
validatorsInListOrder(validatorStakeInfos) == validatorStakeInfos

RECURSIVE validatorsByTotalStakeAsc(_)
validatorsByTotalStakeAsc(validatorStakeInfos) ==
    IF validatorStakeInfos = <<>> THEN <<>>
    ELSE insertSorted(
             validatorsByTotalStakeAsc(
                 SubSeq(validatorStakeInfos, 1, Len(validatorStakeInfos) - 1)),
             validatorStakeInfos[Len(validatorStakeInfos)])

\* stakeAvailableToWithdraw with the retained minimum taken off the active
\* stake as well.
stakeAvailableAboveMinimum(validator) ==
    IF validator.activeStakeLamports # 0
    THEN [lamports     |-> satSub(cloneFromBN(validator.activeStakeLamports),
                                  MIN_ACTIVE_STAKE_LAMPORTS),
          stakeAccount |-> getValidatorStakeAccount(validator.voteAccountAddress)]
    ELSE [lamports     |-> satSub(cloneFromBN(validator.transientStakeLamports),
                                  STAKE_ACCOUNT_RENT_EXEMPT_LAMPORTS
                                      + MIN_ACTIVE_STAKE_LAMPORTS),
          stakeAccount |->
              getValidatorTransientStakeAccount(validator.voteAccountAddress)]

\* stakeAvailableToWithdraw: the active stake account when it holds stake,
\* the transient one otherwise.
stakeAvailableToWithdraw(validator) ==
    LET hasActive == validator.activeStakeLamports # 0
        activeWithdrawableLamports == cloneFromBN(validator.activeStakeLamports)
        transientUnwithdrawableLamports ==
            STAKE_ACCOUNT_RENT_EXEMPT_LAMPORTS + MIN_ACTIVE_STAKE_LAMPORTS
        transientWithdrawableLamports ==
            satSub(cloneFromBN(validator.transientStakeLamports),
                   transientUnwithdrawableLamports)
    IN  IF hasActive
        THEN [lamports     |-> activeWithdrawableLamports,
              stakeAccount |-> getValidatorStakeAccount(validator.voteAccountAddress)]
        ELSE [lamports     |-> transientWithdrawableLamports,
              stakeAccount |->
                  getValidatorTransientStakeAccount(validator.voteAccountAddress)]

RoundingReason == "Stake account has not enough lamports to service the withdrawal"
TransientReason ==
    "Too many transient stake accounts, please try again with a smaller withdraw amount or on the next epoch"

\* tryServiceWithdrawal servicing the whole request from the one account,
\* whatever it holds.
tryServiceWholeRequest(withdrawalAmountDroplets, lamportsAvailable, pool) ==
    calcWithdrawalReceipt(withdrawalAmountDroplets, pool)

\* tryServiceWithdrawal: the receipt for as much of the request as
\* lamportsAvailable can service.
tryServiceWithdrawal(withdrawalAmountDroplets, lamportsAvailable, pool) ==
    LET est == estDropletsUnstakedByWithdrawal(lamportsAvailable, pool)
        dropletsServiced ==
            IF withdrawalAmountDroplets < est.val
            THEN withdrawalAmountDroplets ELSE est.val
        withdrawalReceipt == calcWithdrawalReceipt(dropletsServiced, pool)
    IN  IF Threw(est) THEN est
        ELSE IF Threw(withdrawalReceipt) THEN withdrawalReceipt
        ELSE IF withdrawalReceipt.val.lamportsReceived > lamportsAvailable
        THEN Throw("WithdrawalUnserviceableError", RoundingReason)
        ELSE withdrawalReceipt

\* The forEach of calcWithdrawals over the sorted validators, from entry i
\* on, with the receipts pushed and the droplets remaining so far.
RECURSIVE serviceValidators(_, _, _, _, _)
serviceValidators(available, i, receipts, dropletsRemaining, pool) ==
    IF i > Len(available)
    THEN Ok([res |-> receipts, dropletsRemaining |-> dropletsRemaining])
    ELSE IF dropletsRemaining = 0
    THEN serviceValidators(available, i + 1, receipts, dropletsRemaining, pool)
    ELSE
    LET r == tryServiceWithdrawal(dropletsRemaining, available[i].lamports, pool)
    IN  IF Threw(r) THEN r
        ELSE IF r.val.dropletsUnstaked # 0 /\ r.val.lamportsReceived # 0
        THEN serviceValidators(
                 available, i + 1,
                 Append(receipts, [stakeAccount      |-> available[i].stakeAccount,
                              withdrawalReceipt |-> r.val]),
                 satSub(dropletsRemaining, r.val.dropletsUnstaked), pool)
        ELSE serviceValidators(available, i + 1, receipts, dropletsRemaining, pool)

\* calcWithdrawals without the reserve case of the empty validator list.
calcWithdrawalsWithoutReserve(withdrawalAmountDroplets, pool, validatorList) ==
    LET sortedValidators == validatorsByTotalStakeAsc(validatorList)
        validatorStakeAvailableToWithdraw ==
            [k \in 1..Len(sortedValidators) |->
                stakeAvailableToWithdraw(sortedValidators[k])]
        loop == serviceValidators(validatorStakeAvailableToWithdraw, 1, <<>>,
                                  withdrawalAmountDroplets, pool)
    IN  IF Threw(loop) THEN loop
        ELSE IF loop.val.dropletsRemaining # 0
        THEN Throw("WithdrawalUnserviceableError", TransientReason)
        ELSE Ok(loop.val.res)

\* calcWithdrawals
calcWithdrawals(withdrawalAmountDroplets, pool, validatorList) ==
    IF Len(validatorList) < 1
    THEN LET receipt == calcWithdrawalReceipt(withdrawalAmountDroplets, pool)
         IN  IF Threw(receipt) THEN receipt
             ELSE Ok(<<[stakeAccount      |-> reserveStake,
                        withdrawalReceipt |-> receipt.val]>>)
    ELSE
    LET sortedValidators == validatorsByTotalStakeAsc(validatorList)
        validatorStakeAvailableToWithdraw ==
            [k \in 1..Len(sortedValidators) |->
                stakeAvailableToWithdraw(sortedValidators[k])]
        loop == serviceValidators(validatorStakeAvailableToWithdraw, 1, <<>>,
                                  withdrawalAmountDroplets, pool)
    IN  IF Threw(loop) THEN loop
        ELSE IF loop.val.dropletsRemaining # 0
        THEN Throw("WithdrawalUnserviceableError", TransientReason)
        ELSE Ok(loop.val.res)

(***************************************************************************)
(* CalcSpec: inputs of the pure functions                                  *)
(***************************************************************************)
NoFee == [numerator |-> 0, denominator |-> 0]

\* Fees the stake pool program accepts: below 1, or switched off by a zero
\* denominator.
Fees ==
    {f \in [numerator : 0..MaxFeeDenominator, denominator : 0..MaxFeeDenominator] :
        f.denominator = 0 \/ f.numerator < f.denominator}

ReferralFees == {0, 50, 100}

Pool(total, supply, wFee, solFee, solRef, stakeFee, stakeRef) ==
    [totalStakeLamports |-> total,
     poolTokenSupply    |-> supply,
     withdrawalFee      |-> wFee,
     solDepositFee      |-> solFee,
     solReferralFee     |-> solRef,
     stakeDepositFee    |-> stakeFee,
     stakeReferralFee   |-> stakeRef,
     lastUpdateEpoch    |-> 0]

\* The pools of the documented examples: 1,000,000 droplets backing
\* 1,000,000 lamports, without a fee and with a deposit fee of 1%.
OnePercent == [numerator |-> 1, denominator |-> 100]
ExampleSupply == 1000000
ExampleDeposits == {500, 1000}
ExamplePools ==
    {Pool(ExampleSupply, ExampleSupply, NoFee, f, 0, f, 0) : f \in {NoFee, OnePercent}}

SolDepositPools ==
    {Pool(t, s, NoFee, f, r, NoFee, 0) :
        t \in 0..MaxPoolLamports, s \in 0..MaxPoolLamports,
        f \in Fees, r \in ReferralFees}

StakeDepositPools ==
    {Pool(t, s, NoFee, NoFee, 0, f, r) :
        t \in 0..MaxPoolLamports, s \in 0..MaxPoolLamports,
        f \in Fees, r \in ReferralFees}

WithdrawPools ==
    {Pool(t, s, f, NoFee, 0, NoFee, 0) :
        t \in 0..MaxPoolLamports, s \in 0..MaxPoolLamports, f \in Fees}

\* Stake of a drawn validator: activeStakeLamports, transientStakeLamports.
\* A transient account holds nothing, or its unwithdrawable part and more.
TransientUnwithdrawable == STAKE_ACCOUNT_RENT_EXEMPT_LAMPORTS + MIN_ACTIVE_STAKE_LAMPORTS
ValidatorStakes ==
    {<<0, 0>>, <<1, 0>>, <<2, 0>>, <<3, 0>>,
     <<0, TransientUnwithdrawable + 2>>, <<1, TransientUnwithdrawable + 1>>}

Validator(vote, stake) ==
    [voteAccountAddress     |-> vote,
     activeStakeLamports    |-> stake[1],
     transientStakeLamports |-> stake[2],
     lastUpdateEpoch        |-> 0]

\* Stake of the validator stakeAvailableToWithdraw is applied to: active
\* stake below, at and above MIN_ACTIVE_STAKE_LAMPORTS, with and without
\* transient stake; transient stake at and above its unwithdrawable part.
AvailableStakes ==
    {<<0, 0>>, <<1, 0>>,
     <<MIN_ACTIVE_STAKE_LAMPORTS, 0>>, <<MIN_ACTIVE_STAKE_LAMPORTS + 1, 0>>,
     <<0, TransientUnwithdrawable>>, <<0, TransientUnwithdrawable + 2>>,
     <<1, TransientUnwithdrawable + 1>>,
     <<MIN_ACTIVE_STAKE_LAMPORTS + 1, TransientUnwithdrawable + 1>>}

ValidatorLists ==
    UNION {{[k \in 1..n |-> Validator(k, st[k])] : st \in [1..n -> ValidatorStakes]} :
              n \in 0..MaxValidators}

\* The documented ordering example: total stakes 100, 50 and 200, in every
\* order of the list, in a 1:1 pool.
ExampleStakes == <<100, 50, 200>>
ExampleValidatorLists ==
    {[k \in 1..3 |-> Validator(perm[k], <<ExampleStakes[perm[k]], 0>>)] :
        perm \in {p \in [1..3 -> 1..3] : \A a, b \in 1..3 : a # b => p[a] # p[b]}}
ExampleWithdrawPool == Pool(350, 350, NoFee, NoFee, 0, NoFee, 0)
ExampleWithdrawals == {10, 49, 50, 120}
\* The documented empty-list example withdraws 10 droplets.
ExampleReserveWithdrawal == 10

\* The Numberu64 methods applied on their own; they take no stake pool.
Numberu64Methods == {"sub", "satSub", "ceilDiv"}
NoPool == [none |-> TRUE]

\* No top-level call runs while a pure function is applied.
NoCall ==
    /\ walletPublicKey = "null"
    /\ ledger = [epoch |-> 0]
    /\ pc = "none"
    /\ currEpoch = 0
    /\ currentEpoch = 0
    /\ stakeAccountLamports = 0
    /\ actionBatch = <<>>
    /\ transactionSequence = <<>>
    /\ batch = 0
    /\ txStatus = <<>>
    /\ res = <<>>
    /\ submitted = <<>>

CalcInit ==
    /\ NoCall
    /\ ret = NotReturned
    /\ \/ /\ fn \in Numberu64Methods
          /\ stakePool = NoPool
          /\ validators = <<>>
          /\ amount \in 0..MaxOperand
          /\ operand \in 0..MaxOperand
       \/ /\ fn = "stakeAvailableToWithdraw"
          /\ operand = 0
          /\ amount = 0
          /\ stakePool = NoPool
          /\ validators \in {<<Validator(vote, st)>> :
                                vote \in 1..MaxValidators, st \in AvailableStakes}
       \/ /\ fn = "tryServiceWithdrawal"
          /\ validators = <<>>
          /\ stakePool \in WithdrawPools
          /\ amount \in 0..MaxAmount
          /\ operand \in 0..MaxOperand
       \/ /\ fn = "calcSolDeposit"
          /\ operand = 0
          /\ validators = <<>>
          /\ \/ stakePool \in SolDepositPools /\ amount \in 0..MaxAmount
             \/ stakePool \in ExamplePools /\ amount \in ExampleDeposits
       \/ /\ fn = "calcStakeDeposit"
          /\ operand = 0
          /\ validators = <<>>
          /\ \/ stakePool \in StakeDepositPools /\ amount \in 0..MaxAmount
             \/ stakePool \in ExamplePools /\ amount \in ExampleDeposits
       \/ /\ fn = "calcWithdrawalReceipt"
          /\ operand = 0
          /\ validators = <<>>
          /\ stakePool \in WithdrawPools
          /\ amount \in 0..MaxAmount
       \/ /\ fn = "calcWithdrawals"
          /\ operand = 0
          /\ \/ /\ stakePool \in WithdrawPools
                /\ validators \in ValidatorLists
                /\ amount \in 0..MaxAmount
             \/ /\ stakePool = ExampleWithdrawPool
                /\ validators \in ExampleValidatorLists
                /\ amount \in ExampleWithdrawals
             \/ /\ stakePool \in WithdrawPools
                /\ validators = <<>>
                /\ amount = ExampleReserveWithdrawal

CallCalcSolDeposit ==
    /\ fn = "calcSolDeposit" /\ ret = NotReturned
    /\ ret' = calcSolDeposit(amount, stakePool)
    /\ UNCHANGED <<fn, operand, stakePool, validators, amount>>
    /\ UNCHANGED execVars

CallCalcStakeDeposit ==
    /\ fn = "calcStakeDeposit" /\ ret = NotReturned
    /\ ret' = calcStakeDeposit(amount, stakePool)
    /\ UNCHANGED <<fn, operand, stakePool, validators, amount>>
    /\ UNCHANGED execVars

CallCalcWithdrawalReceipt ==
    /\ fn = "calcWithdrawalReceipt" /\ ret = NotReturned
    /\ ret' = calcWithdrawalReceipt(amount, stakePool)
    /\ UNCHANGED <<fn, operand, stakePool, validators, amount>>
    /\ UNCHANGED execVars

CallCalcWithdrawals ==
    /\ fn = "calcWithdrawals" /\ ret = NotReturned
    /\ ret' = calcWithdrawals(amount, stakePool, validators)
    /\ UNCHANGED <<fn, operand, stakePool, validators, amount>>
    /\ UNCHANGED execVars

CallSub ==
    /\ fn = "sub" /\ ret = NotReturned
    /\ ret' = Ok(sub(amount, operand))
    /\ UNCHANGED <<fn, operand, stakePool, validators, amount>>
    /\ UNCHANGED execVars

CallSatSub ==
    /\ fn = "satSub" /\ ret = NotReturned
    /\ ret' = Ok(satSub(amount, operand))
    /\ UNCHANGED <<fn, operand, stakePool, validators, amount>>
    /\ UNCHANGED execVars

CallCeilDiv ==
    /\ fn = "ceilDiv" /\ ret = NotReturned
    /\ ret' = ceilDiv(amount, operand)
    /\ UNCHANGED <<fn, operand, stakePool, validators, amount>>
    /\ UNCHANGED execVars

CallStakeAvailableToWithdraw ==
    /\ fn = "stakeAvailableToWithdraw" /\ ret = NotReturned
    /\ ret' = Ok(stakeAvailableToWithdraw(validators[1]))
    /\ UNCHANGED <<fn, operand, stakePool, validators, amount>>
    /\ UNCHANGED execVars

\* tryServiceWithdrawal(amount, lamportsAvailable = operand, stakePool)
CallTryServiceWithdrawal ==
    /\ fn = "tryServiceWithdrawal" /\ ret = NotReturned
    /\ ret' = tryServiceWithdrawal(amount, operand, stakePool)
    /\ UNCHANGED <<fn, operand, stakePool, validators, amount>>
    /\ UNCHANGED execVars

CalcNext ==
    \/ CallStakeAvailableToWithdraw
    \/ CallTryServiceWithdrawal
    \/ CallSub
    \/ CallSatSub
    \/ CallCeilDiv
    \/ CallCalcSolDeposit
    \/ CallCalcStakeDeposit
    \/ CallCalcWithdrawalReceipt
    \/ CallCalcWithdrawals

CalcSpec == CalcInit /\ [][CalcNext]_vars

(***************************************************************************)
(* Transactions and the sequence builder                                   *)
(***************************************************************************)
\* A TransactionWithSigners: the instructions of tx and the extra signers.
\* startIndex and votes are those of an updateValidatorListBalance
\* transaction; withdrawals are the receipts a withdraw transaction serves.
TransactionWithSigners(kind, instructions, startIndex, votes, withdrawals, signers) ==
    [kind         |-> kind,
     instructions |-> instructions,
     startIndex   |-> startIndex,
     votes        |-> votes,
     withdrawals  |-> withdrawals,
     signers      |-> signers]

\* Keypair.generate(): the n-th keypair generated for the given purpose.
Keypair(purpose, n) == [key |-> purpose, n |-> n]
walletKey == Keypair("wallet", 0)

\* A slice that ignores its end and runs to the end of the array.
sliceToEnd(arr, start, end) == SubSeq(arr, start + 1, Len(arr))

\* Array.prototype.slice(start, end) on 0-based indices.
slice(arr, start, end) ==
    SubSeq(arr, start + 1, IF end < Len(arr) THEN end ELSE Len(arr))

\* A findIndex that takes the first remaining validator, updated or not.
findIndexFirst(validatorInfos, startIndex, epoch) ==
    IF startIndex < Len(validatorInfos) THEN 0 ELSE -1

\* remaining.findIndex(validator => validator.lastUpdateEpoch.lt(epoch)) on
\* validators.slice(startIndex): 0-based offset in remaining, or -1.
findIndexNonUpdated(validatorInfos, startIndex, epoch) ==
    LET hits == {i \in (startIndex + 1)..Len(validatorInfos) :
                    validatorInfos[i].lastUpdateEpoch < epoch}
    IN  IF hits = {} THEN -1
        ELSE (CHOOSE i \in hits : \A j \in hits : i <= j) - 1 - startIndex

\* The loop left after its first pass: only the first chunk is pushed.
updateValidatorListBalanceFirstChunk(validatorInfos, epoch, startIndex, txs) ==
    LET firstNonUpdated == findIndexNonUpdated(validatorInfos, startIndex, epoch)
        start == startIndex + firstNonUpdated
        voteAccounts == [i \in 1..Len(validatorInfos) |->
                            validatorInfos[i].voteAccountAddress]
    IN  IF firstNonUpdated = -1 THEN txs
        ELSE Append(txs, TransactionWithSigners(
                 "updateValidatorListBalance",
                 <<"updateValidatorListBalance">>,
                 start, slice(voteAccounts, start, start + MAX_VALIDATORS_TO_UPDATE),
                 <<>>, <<>>))

\* The do/while loop of updateValidatorListBalanceTransactions from
\* startIndex on, with the transactions pushed so far.
RECURSIVE updateValidatorListBalanceLoop(_, _, _, _)
updateValidatorListBalanceLoop(validatorInfos, epoch, startIndex, txs) ==
    LET firstNonUpdated == findIndexNonUpdated(validatorInfos, startIndex, epoch)
        start == startIndex + firstNonUpdated
        endIndex == start + MAX_VALIDATORS_TO_UPDATE
        voteAccounts == [i \in 1..Len(validatorInfos) |->
                            validatorInfos[i].voteAccountAddress]
        chunk == slice(voteAccounts, start, endIndex)
        pushed == Append(txs, TransactionWithSigners(
                      "updateValidatorListBalance",
                      <<"updateValidatorListBalance">>,
                      start, chunk, <<>>, <<>>))
    IN  IF firstNonUpdated = -1 THEN txs
        ELSE IF endIndex < Len(validatorInfos)
        THEN updateValidatorListBalanceLoop(validatorInfos, epoch, endIndex, pushed)
        ELSE pushed

updateValidatorListBalanceTransactions(validatorInfos, epoch) ==
    updateValidatorListBalanceLoop(validatorInfos, epoch, 0, <<>>)

finalTxWithSigners ==
    TransactionWithSigners(
        "updateStakePoolBalance",
        <<"updateStakePoolBalance", "cleanupRemovedValidators">>,
        0, <<>>, <<>>, <<>>)

\* A filter that keeps every array, empty or not.
keepAll(arrs) == arrs

\* arr.filter(a => a.length > 0) on an array of arrays.
filterNonEmpty(arrs) == SelectSeq(arrs, LAMBDA a : Len(a) > 0)

\* An update sequence with the pool update ahead of the validator refresh.
updateTransactionSequenceFinalFirst(validatorInfos, epoch) ==
    filterNonEmpty(<<<<finalTxWithSigners>>,
                     updateValidatorListBalanceTransactions(validatorInfos, epoch)>>)

\* updateTransactionSequence, given the epoch its inner getCurrentEpoch read.
updateTransactionSequence(validatorInfos, epoch) ==
    filterNonEmpty(<<updateValidatorListBalanceTransactions(validatorInfos, epoch),
                     <<finalTxWithSigners>>>>)

\* A stale check that never asks for the refresh.
neverStale(pool, epoch) == FALSE

\* The builders' stale check.
isStale(pool, epoch) == pool.lastUpdateEpoch < epoch

\* The deposit transaction of depositSolTransactions; createAssociated says
\* whether getOrCreateAssociatedAddress added its instruction.
depositSolBatch(createAssociated) ==
    <<TransactionWithSigners(
        "depositSol",
        (IF createAssociated THEN <<"createAssociatedTokenAccount">> ELSE <<>>)
            \o <<"depositSol">>,
        0, <<>>, <<>>, <<>>)>>

\* depositStakeTransactions: is amountLamports a split of the stake account?
splitsStake(amountLamports, accountLamports) ==
    amountLamports # 0 /\ amountLamports < accountLamports

splitNotRentExempt(amountLamports, accountLamports) ==
    \/ amountLamports <= STAKE_ACCOUNT_RENT_EXEMPT_LAMPORTS
    \/ accountLamports - amountLamports <= STAKE_ACCOUNT_RENT_EXEMPT_LAMPORTS

\* The deposit transaction of depositStakeTransactions.
depositStakeBatch(createAssociated, amountLamports, accountLamports) ==
    LET split == splitsStake(amountLamports, accountLamports)
    IN  <<TransactionWithSigners(
            "depositStake",
            (IF createAssociated THEN <<"createAssociatedTokenAccount">> ELSE <<>>)
                \o (IF split THEN <<"split">> ELSE <<>>)
                \o <<"authorizeStaker", "authorizeWithdrawer", "depositStake">>,
            0, <<>>, <<>>,
            IF split THEN <<Keypair("splitStakeAccount", 1)>> ELSE <<>>)>>

\* getWithdrawStakeTransactions without the chunking: every receipt from
\* chunkOffset on goes into one transaction.
withdrawAllInOne(validatorWithdrawalReceipts, chunkOffset, transactions) ==
    IF chunkOffset >= Len(validatorWithdrawalReceipts) THEN transactions
    ELSE
    LET idx == [n \in 1..(Len(validatorWithdrawalReceipts) - chunkOffset) |->
                   chunkOffset + n]
    IN  Append(transactions,
               TransactionWithSigners(
                   "withdrawStake",
                   [n \in 1..(2 * Len(idx)) |->
                       IF n % 2 = 1 THEN "createAccount" ELSE "withdrawStake"],
                   0, <<>>,
                   [n \in 1..Len(idx) |->
                       [stakeSplitFrom   |-> validatorWithdrawalReceipts[idx[n]].stakeAccount,
                        stakeSplitTo     |-> Keypair("stakeSplitTo", idx[n]),
                        dropletsUnstaked |->
                            validatorWithdrawalReceipts[idx[n]].withdrawalReceipt.dropletsUnstaked]],
                   [n \in 1..Len(idx) |-> Keypair("stakeSplitTo", idx[n])]))

\* getWithdrawStakeTransactions: the chunks of MAX_WITHDRAWALS_PER_TX
\* receipts from chunkOffset on; receipt i is paid into the i-th generated
\* stake account, whose keypair signs the transaction.
RECURSIVE withdrawChunks(_, _, _)
withdrawChunks(validatorWithdrawalReceipts, chunkOffset, transactions) ==
    IF chunkOffset >= Len(validatorWithdrawalReceipts) THEN transactions
    ELSE
    LET last == IF chunkOffset + MAX_WITHDRAWALS_PER_TX < Len(validatorWithdrawalReceipts)
                THEN chunkOffset + MAX_WITHDRAWALS_PER_TX
                ELSE Len(validatorWithdrawalReceipts)
        idx == [n \in 1..(last - chunkOffset) |-> chunkOffset + n]
        tx == TransactionWithSigners(
                  "withdrawStake",
                  [n \in 1..(2 * Len(idx)) |->
                      IF n % 2 = 1 THEN "createAccount" ELSE "withdrawStake"],
                  0, <<>>,
                  [n \in 1..Len(idx) |->
                      [stakeSplitFrom   |-> validatorWithdrawalReceipts[idx[n]].stakeAccount,
                       stakeSplitTo     |-> Keypair("stakeSplitTo", idx[n]),
                       dropletsUnstaked |->
                           validatorWithdrawalReceipts[idx[n]].withdrawalReceipt.dropletsUnstaked]],
                  [n \in 1..Len(idx) |-> Keypair("stakeSplitTo", idx[n])])
    IN  withdrawChunks(validatorWithdrawalReceipts,
                       chunkOffset + MAX_WITHDRAWALS_PER_TX,
                       Append(transactions, tx))

getWithdrawStakeTransactions(validatorWithdrawalReceipts) ==
    withdrawChunks(validatorWithdrawalReceipts, 0, <<>>)

\* newStakeAccounts of getWithdrawStakeTransactions.
newStakeAccounts(validatorWithdrawalReceipts) ==
    [i \in 1..Len(validatorWithdrawalReceipts) |-> Keypair("stakeSplitTo", i)]

\* transactionSequence.unshift(...updateTxSeq) when the snapshot is stale.
buildSequence(pool, epochRead, validatorInfos, epochReadByUpdate, action) ==
    IF isStale(pool, epochRead)
    THEN updateTransactionSequence(validatorInfos, epochReadByUpdate) \o <<action>>
    ELSE <<action>>

\* The withdrawals of all transactions of a withdraw batch, in order.
RECURSIVE withdrawalsOf(_)
withdrawalsOf(transactions) ==
    IF transactions = <<>> THEN <<>>
    ELSE Head(transactions).withdrawals \o withdrawalsOf(Tail(transactions))

(***************************************************************************)
(* Spec: one top-level call of the Socean client                           *)
(***************************************************************************)
\* The stake pool and validator list accounts on the ledger. Validators
\* hold one lamport of active stake each, so that a withdrawal of n droplets
\* needs n receipts.
LedgerPool(lastUpdateEpoch) ==
    [Pool(LedgerPoolLamports, LedgerPoolLamports, NoFee, NoFee, 0, NoFee, 0)
        EXCEPT !.lastUpdateEpoch = lastUpdateEpoch]

LedgerValidators(epochs) ==
    [i \in 1..Len(epochs) |->
        [Validator(i, <<1, 0>>) EXCEPT !.lastUpdateEpoch = epochs[i]]]

\* Epochs a ledger entry was last updated at: the previous or the current one.
LastUpdateEpochs == {InitialEpoch - 1, InitialEpoch}

EpochLists ==
    UNION {[1..n -> LastUpdateEpochs] : n \in 0..MaxListLen}

\* The pool's lastUpdateEpoch is only brought to the current epoch once
\* every validator of the list has been updated for it.
Ledgers ==
    {[epoch      |-> InitialEpoch,
      stakePool  |-> LedgerPool(e),
      validators |-> LedgerValidators(epochs)] :
        e \in LastUpdateEpochs, epochs \in EpochLists}

ConsistentLedger(l) ==
    l.stakePool.lastUpdateEpoch = l.epoch
        => \A i \in 1..Len(l.validators) : l.validators[i].lastUpdateEpoch = l.epoch

DepositSolAmounts == {1}
DepositStakeAmounts ==
    {0, STAKE_ACCOUNT_RENT_EXEMPT_LAMPORTS, STAKE_ACCOUNT_RENT_EXEMPT_LAMPORTS + 1}
WithdrawStakeAmounts == {0, 1, MAX_WITHDRAWALS_PER_TX + 1}

\* Lamports a stake account to deposit may hold.
StakeAccountLamports ==
    {STAKE_ACCOUNT_RENT_EXEMPT_LAMPORTS + 1,
     2 * STAKE_ACCOUNT_RENT_EXEMPT_LAMPORTS + 1,
     2 * STAKE_ACCOUNT_RENT_EXEMPT_LAMPORTS + 2}

\* What getParsedAccountInfo(stakeAccount) may find that fails the checks.
InvalidStakeAccounts ==
    {"stake account does not exist", "not a stake account", "stake account not delegated"}

Unread == [unread |-> TRUE]

\* Sequences a caller may hand to signAndSendTransactionSequence itself.
GivenSequences ==
    {buildSequence(LedgerPool(e), InitialEpoch, LedgerValidators(<<e>>),
                   InitialEpoch, depositSolBatch(FALSE)) :
        e \in LastUpdateEpochs}

\* A call of depositSol, depositStake or withdrawStake about to start, or
\* a call of signAndSendTransactionSequence with a sequence built before.
Init ==
    /\ \/ /\ \/ fn = "depositSol" /\ amount \in DepositSolAmounts
             \/ fn = "depositStake" /\ amount \in DepositStakeAmounts
             \/ fn = "withdrawStake" /\ amount \in WithdrawStakeAmounts
          /\ pc = "start"
          /\ actionBatch = <<>>
          /\ transactionSequence = <<>>
          /\ ledger \in {l \in Ledgers : ConsistentLedger(l)}
       \/ /\ fn = "signAndSendTransactionSequence"
          /\ amount = 0
          /\ pc = "signAndSend"
          /\ transactionSequence \in GivenSequences
          /\ actionBatch = transactionSequence[Len(transactionSequence)]
          /\ ledger \in {l \in Ledgers : ConsistentLedger(l) /\ Len(l.validators) = 1}
    /\ walletPublicKey \in {"wallet", "null"}
    /\ operand = 0
    /\ stakePool = Unread
    /\ validators = <<>>
    /\ ret = NotReturned
    /\ currEpoch = 0
    /\ currentEpoch = 0
    /\ stakeAccountLamports = 0
    /\ batch = 0
    /\ txStatus = <<>>
    /\ res = <<>>
    /\ submitted = <<>>

\* The call ends by throwing e.
Throws(e, why) ==
    /\ ret' = Throw(e, why)
    /\ pc' = "done"

\* A check that lets every publicKey through.
publicKeyNeverChecked(publicKey) == FALSE

\* if (!walletPubkey) / if (!feePayer)
publicKeyUnavailable(publicKey) == publicKey = "null"

\* depositSol / depositStake / withdrawStake: the publicKey check, then the
\* first read of the *Transactions builder.
CheckWallet ==
    /\ pc = "start"
    /\ IF publicKeyUnavailable(walletPublicKey)
       THEN Throws("WalletPublicKeyUnavailableError", "")
       ELSE /\ pc' = IF fn = "depositStake" THEN "getParsedAccountInfo"
                     ELSE "getStakePoolAccount"
            /\ ret' = ret
    /\ UNCHANGED <<fn, operand, stakePool, validators, amount, walletPublicKey, ledger,
                   currEpoch, currentEpoch, stakeAccountLamports, actionBatch,
                   transactionSequence, batch, txStatus, res, submitted>>

\* depositStakeTransactions: getParsedAccountInfo(stakeAccount) and the
\* checks on what it found.
GetParsedStakeAccount ==
    /\ pc = "getParsedAccountInfo"
    /\ \/ \E why \in InvalidStakeAccounts :
            /\ Throws("StakeAccountToDepositInvalidError", why)
            /\ UNCHANGED stakeAccountLamports
       \/ \E lamports \in StakeAccountLamports :
            /\ stakeAccountLamports' = lamports
            /\ pc' = "getParsedAccountInfoVsa"
            /\ ret' = ret
    /\ UNCHANGED <<fn, operand, stakePool, validators, amount, walletPublicKey, ledger,
                   currEpoch, currentEpoch, actionBatch, transactionSequence,
                   batch, txStatus, res, submitted>>

\* depositStakeTransactions: getParsedAccountInfo(vsa).
GetParsedValidatorStakeAccount ==
    /\ pc = "getParsedAccountInfoVsa"
    /\ \/ Throws("AccountDoesNotExistError", "vsa")
       \/ pc' = "getStakePoolAccount" /\ ret' = ret
    /\ UNCHANGED <<fn, operand, stakePool, validators, amount, walletPublicKey, ledger,
                   currEpoch, currentEpoch, stakeAccountLamports, actionBatch,
                   transactionSequence, batch, txStatus, res, submitted>>

GetStakePoolAccount ==
    /\ pc = "getStakePoolAccount"
    /\ stakePool' = ledger.stakePool
    /\ pc' = IF fn = "withdrawStake" THEN "getValidatorListAccount"
             ELSE "getOrCreateAssociatedAddress"
    /\ UNCHANGED <<fn, operand, validators, amount, ret, walletPublicKey, ledger,
                   currEpoch, currentEpoch, stakeAccountLamports, actionBatch,
                   transactionSequence, batch, txStatus, res, submitted>>

\* getOrCreateAssociatedAddress, then the deposit transaction.
GetOrCreateAssociatedAddress ==
    /\ pc = "getOrCreateAssociatedAddress"
    /\ \E createAssociated \in BOOLEAN :
        IF fn = "depositStake"
              /\ splitsStake(amount, stakeAccountLamports)
              /\ splitNotRentExempt(amount, stakeAccountLamports)
        THEN /\ Throws("StakeAccountNotRentExemptError", "")
             /\ UNCHANGED actionBatch
        ELSE /\ actionBatch' =
                    IF fn = "depositStake"
                    THEN depositStakeBatch(createAssociated, amount, stakeAccountLamports)
                    ELSE depositSolBatch(createAssociated)
             /\ pc' = "getCurrentEpoch"
             /\ ret' = ret
    /\ UNCHANGED <<fn, operand, stakePool, validators, amount, walletPublicKey, ledger,
                   currEpoch, currentEpoch, stakeAccountLamports,
                   transactionSequence, batch, txStatus, res, submitted>>

\* getValidatorListAccount; in withdrawStakeTransactions calcWithdrawals
\* runs on what it read.
GetValidatorListAccount ==
    /\ pc = "getValidatorListAccount"
    /\ validators' = ledger.validators
    /\ IF fn = "withdrawStake"
       THEN LET validatorWithdrawalReceipts ==
                    calcWithdrawals(amount, stakePool, ledger.validators)
            IN  IF Threw(validatorWithdrawalReceipts)
                THEN /\ ret' = validatorWithdrawalReceipts
                     /\ pc' = "done"
                ELSE /\ pc' = "getMinimumBalanceForRentExemption"
                     /\ ret' = ret
       ELSE /\ pc' = "updateGetCurrentEpoch"
            /\ ret' = ret
    /\ UNCHANGED <<fn, operand, stakePool, amount, walletPublicKey, ledger, currEpoch,
                   currentEpoch, stakeAccountLamports, actionBatch,
                   transactionSequence, batch, txStatus, res, submitted>>

\* getWithdrawStakeTransactions: the rent query, then the withdraw batch.
GetWithdrawStakeTransactions ==
    /\ pc = "getMinimumBalanceForRentExemption"
    /\ actionBatch' =
           getWithdrawStakeTransactions(calcWithdrawals(amount, stakePool, validators).val)
    /\ pc' = "getCurrentEpoch"
    /\ UNCHANGED <<fn, operand, stakePool, validators, amount, ret, walletPublicKey,
                   ledger, currEpoch, currentEpoch, stakeAccountLamports,
                   transactionSequence, batch, txStatus, res, submitted>>

\* The builders' getCurrentEpoch and stale check.
GetCurrentEpoch ==
    /\ pc = "getCurrentEpoch"
    /\ currEpoch' = ledger.epoch
    /\ IF isStale(stakePool, ledger.epoch)
       THEN /\ pc' = IF fn = "withdrawStake" THEN "updateGetCurrentEpoch"
                     ELSE "getValidatorListAccount"
            /\ UNCHANGED transactionSequence
       ELSE /\ transactionSequence' =
                   buildSequence(stakePool, ledger.epoch, validators, 0, actionBatch)
            /\ pc' = "signAndSend"
    /\ UNCHANGED <<fn, operand, stakePool, validators, amount, ret, walletPublicKey,
                   ledger, currentEpoch, stakeAccountLamports, actionBatch,
                   batch, txStatus, res, submitted>>

\* updateValidatorListBalanceTransactions' getCurrentEpoch, then the rest
\* of updateTransactionSequence and the unshift.
UpdateTransactionSequence ==
    /\ pc = "updateGetCurrentEpoch"
    /\ currentEpoch' = ledger.epoch
    /\ transactionSequence' =
           buildSequence(stakePool, currEpoch, validators, ledger.epoch, actionBatch)
    /\ pc' = "signAndSend"
    /\ UNCHANGED <<fn, operand, stakePool, validators, amount, ret, walletPublicKey,
                   ledger, currEpoch, stakeAccountLamports, actionBatch,
                   batch, txStatus, res, submitted>>

\* A web3.js Transaction as the executor sees it: what it has set on it,
\* who signed it (in signing order) and how far its submission got.
builtTransaction ==
    [recentBlockhash |-> "none",
     feePayer        |-> "none",
     signatures      |-> <<>>,
     status          |-> "built"]

\* tx.recentBlockhash = blockhash; tx.feePayer = feePayer.
preppedTransaction(tx) ==
    [tx EXCEPT !.recentBlockhash = "blockhash",
               !.feePayer = "wallet",
               !.status = "prepped"]

\* walletAdapter.signAllTransactions: the wallet adds its signature.
walletSignedTransaction(tx) ==
    [tx EXCEPT !.signatures = Append(tx.signatures, walletKey),
               !.status = "walletSigned"]

\* A transaction sent without the partialSign of its signers.
sentWithoutSigners(tx, signers) == [tx EXCEPT !.status = "sent"]

\* partialSign(...signers), then sendAndConfirmRawTransaction.
sentTransaction(tx, signers) ==
    [tx EXCEPT !.signatures = tx.signatures \o signers,
               !.status = "sent"]

\* The signature sendAndConfirmRawTransaction resolves with for
\* transaction k of batch b.
signatureOf(b, k) == <<b, k>>

\* Promise.all resolves once one of the promises has resolved.
promiseAnyResolved(statuses) ==
    \/ Len(statuses) = 0
    \/ \E k \in 1..Len(statuses) : statuses[k].status = "confirmed"

\* Promise.allSettled: done once every promise has resolved or rejected.
promiseAllSettled(statuses) ==
    \A k \in 1..Len(statuses) : statuses[k].status \in {"confirmed", "failed"}

\* Promise.all(sigPromises) resolves once every promise has resolved ...
promiseAllResolved(statuses) ==
    \A k \in 1..Len(statuses) : statuses[k].status = "confirmed"

\* ... and rejects as soon as one of them has rejected.
promiseAllRejected(statuses) ==
    \E k \in 1..Len(statuses) : statuses[k].status = "failed"

\* A call that resolves without the signatures.
returnNothing(f, signatures, withdrawalBatch) == <<>>

\* What the top-level call resolves with, given the executor's res:
\* withdrawStake adds the generated stake accounts.
returnValue(f, signatures, withdrawalBatch) ==
    IF f = "withdrawStake"
    THEN [transactionSignatures |-> signatures,
          stakeAccounts |->
              newStakeAccounts([i \in 1..Len(withdrawalBatch) |-> withdrawalBatch[i]])]
    ELSE signatures

\* The TransactionSequenceSignatures in a value the call resolved with.
transactionSignatures(f, value) ==
    IF f = "withdrawStake" THEN value.transactionSignatures ELSE value

\* signAndSendTransactionSequence up to the first batch.
SignAndSend ==
    /\ pc = "signAndSend"
    /\ res' = <<>>
    /\ txStatus' = [b \in 1..Len(transactionSequence) |->
                       [k \in 1..Len(transactionSequence[b]) |-> builtTransaction]]
    /\ IF publicKeyUnavailable(walletPublicKey)
       THEN /\ Throws("WalletPublicKeyUnavailableError", "")
            /\ UNCHANGED batch
       ELSE IF Len(transactionSequence) = 0
       THEN /\ ret' = Ok(returnValue(fn, <<>>, withdrawalsOf(actionBatch)))
            /\ pc' = "done"
            /\ UNCHANGED batch
       ELSE /\ batch' = 1
            /\ pc' = "getLatestBlockhash"
            /\ ret' = ret
    /\ UNCHANGED <<fn, operand, stakePool, validators, amount, walletPublicKey, ledger,
                   currEpoch, currentEpoch, stakeAccountLamports, actionBatch,
                   transactionSequence, submitted>>

\* signSendConfirmTransactions: the blockhash, set with the fee payer on
\* every transaction of the batch before signAllTransactions is called.
GetLatestBlockhash ==
    /\ pc = "getLatestBlockhash"
    /\ txStatus' = [txStatus EXCEPT ![batch] =
                       [k \in 1..Len(txStatus[batch]) |->
                           preppedTransaction(txStatus[batch][k])]]
    /\ pc' = "signAllTransactions"
    /\ UNCHANGED <<fn, operand, stakePool, validators, amount, ret, walletPublicKey,
                   ledger, currEpoch, currentEpoch, stakeAccountLamports,
                   actionBatch, transactionSequence, batch, res, submitted>>

\* The wallet resolves signAllTransactions: every transaction of the batch
\* carries its signature.
SignAllTransactions ==
    /\ pc = "signAllTransactions"
    /\ txStatus' = [txStatus EXCEPT ![batch] =
                       [k \in 1..Len(txStatus[batch]) |->
                           walletSignedTransaction(txStatus[batch][k])]]
    /\ pc' = "partialSign"
    /\ UNCHANGED <<fn, operand, stakePool, validators, amount, ret, walletPublicKey,
                   ledger, currEpoch, currentEpoch, stakeAccountLamports,
                   actionBatch, transactionSequence, batch, res, submitted>>

\* signSendConfirmTransactions after the wallet has signed: the signers of
\* entry k sign transaction k, and every transaction of the batch is
\* submitted.
PartialSignAndSend ==
    /\ pc = "partialSign"
    /\ txStatus' = [txStatus EXCEPT ![batch] =
                       [k \in 1..Len(txStatus[batch]) |->
                           sentTransaction(txStatus[batch][k],
                                           transactionSequence[batch][k].signers)]]
    /\ submitted' = submitted \o
                       [k \in 1..Len(txStatus[batch]) |-> signatureOf(batch, k)]
    /\ pc' = "awaitAll"
    /\ UNCHANGED <<fn, operand, stakePool, validators, amount, ret, walletPublicKey,
                   ledger, currEpoch, currentEpoch, stakeAccountLamports,
                   actionBatch, transactionSequence, batch, res>>

\* Whether the stake pool program on the ledger executes the transaction:
\* the pool balance update needs every validator updated for the epoch
\* (StakeListOutOfDate), a deposit or withdrawal needs the pool updated for
\* the epoch (StakeListAndPoolOutOfDate).
ledgerAccepts(l, tx) ==
    IF tx.kind = "updateStakePoolBalance"
    THEN \A i \in 1..Len(l.validators) : l.validators[i].lastUpdateEpoch >= l.epoch
    ELSE IF tx.kind \in {"depositSol", "depositStake", "withdrawStake"}
    THEN l.stakePool.lastUpdateEpoch >= l.epoch
    ELSE TRUE

\* The ledger after the transaction executed: a refresh brings the
\* lastUpdateEpoch of what it covers to the epoch of the ledger.
ledgerAfter(l, tx) ==
    IF tx.kind = "updateValidatorListBalance"
    THEN [l EXCEPT !.validators =
             [i \in 1..Len(l.validators) |->
                 IF i > tx.startIndex /\ i <= tx.startIndex + Len(tx.votes)
                 THEN [l.validators[i] EXCEPT !.lastUpdateEpoch = l.epoch]
                 ELSE l.validators[i]]]
    ELSE IF tx.kind = "updateStakePoolBalance"
    THEN [l EXCEPT !.stakePool.lastUpdateEpoch = l.epoch]
    ELSE l

\* The cluster executes and confirms a submitted transaction.
Confirm(b, k) ==
    /\ txStatus[b][k].status = "sent"
    /\ ledgerAccepts(ledger, transactionSequence[b][k])
    /\ txStatus' = [txStatus EXCEPT ![b][k].status = "confirmed"]
    /\ ledger' = ledgerAfter(ledger, transactionSequence[b][k])
    /\ UNCHANGED <<fn, operand, stakePool, validators, amount, ret, walletPublicKey,
                   pc, currEpoch, currentEpoch, stakeAccountLamports,
                   actionBatch, transactionSequence, batch, res, submitted>>

\* sendAndConfirmRawTransaction rejects for a submitted transaction.
Reject(b, k) ==
    /\ txStatus[b][k].status = "sent"
    /\ txStatus' = [txStatus EXCEPT ![b][k].status = "failed"]
    /\ UNCHANGED <<fn, operand, stakePool, validators, amount, ret, walletPublicKey,
                   ledger, pc, currEpoch, currentEpoch, stakeAccountLamports,
                   actionBatch, transactionSequence, batch, res, submitted>>

\* Promise.all resolved: res.push(signatures), then the next batch or return.
BatchResolved ==
    /\ pc = "awaitAll"
    /\ promiseAllResolved(txStatus[batch])
    /\ res' = Append(res, [k \in 1..Len(txStatus[batch]) |-> signatureOf(batch, k)])
    /\ IF batch < Len(transactionSequence)
       THEN /\ batch' = batch + 1
            /\ pc' = "getLatestBlockhash"
            /\ ret' = ret
       ELSE /\ ret' = Ok(returnValue(fn, res', withdrawalsOf(actionBatch)))
            /\ pc' = "done"
            /\ UNCHANGED batch
    /\ UNCHANGED <<fn, operand, stakePool, validators, amount, walletPublicKey, ledger,
                   currEpoch, currentEpoch, stakeAccountLamports, actionBatch,
                   transactionSequence, txStatus, submitted>>

\* A retry policy the executor does not have: on a rejection the failed
\* transactions of the batch are handed to sendAndConfirmRawTransaction again.
BatchRejectedResubmits ==
    /\ pc = "awaitAll"
    /\ promiseAllRejected(txStatus[batch])
    /\ txStatus' = [txStatus EXCEPT ![batch] =
                       [k \in 1..Len(txStatus[batch]) |->
                           IF txStatus[batch][k].status = "failed"
                           THEN [txStatus[batch][k] EXCEPT !.status = "sent"]
                           ELSE txStatus[batch][k]]]
    /\ submitted' = submitted \o
                       SelectSeq([k \in 1..Len(txStatus[batch]) |-> signatureOf(batch, k)],
                                 LAMBDA sig : txStatus[batch][sig[2]].status = "failed")
    /\ UNCHANGED <<fn, operand, stakePool, validators, amount, ret, walletPublicKey, ledger,
                   pc, currEpoch, currentEpoch, stakeAccountLamports, actionBatch,
                   transactionSequence, batch, res>>

\* Promise.all rejected: tryRpc's RpcError leaves signSendConfirmTransactions
\* and signAndSendTransactionSequence, whose res is dropped with its frame.
BatchRejected ==
    /\ pc = "awaitAll"
    /\ promiseAllRejected(txStatus[batch])
    /\ Throws("RpcError", "sendAndConfirmRawTransaction")
    /\ UNCHANGED <<fn, operand, stakePool, validators, amount, walletPublicKey, ledger,
                   currEpoch, currentEpoch, stakeAccountLamports, actionBatch,
                   transactionSequence, batch, txStatus, res, submitted>>

\* The awaits that go through tryRpc, and those that do not.
TryRpcAwaits ==
    {"getStakePoolAccount", "getOrCreateAssociatedAddress", "getValidatorListAccount",
     "getCurrentEpoch", "updateGetCurrentEpoch", "getLatestBlockhash"}
BareAwaits ==
    {"getParsedAccountInfo", "getParsedAccountInfoVsa",
     "getMinimumBalanceForRentExemption", "signAllTransactions"}

\* The error the caller gets when the promise awaited at p rejects.
rejectionOf(p) == IF p \in TryRpcAwaits THEN "RpcError" ELSE "Error"

\* The remote call the builder or the executor awaits rejects.
AwaitRejected ==
    /\ pc \in TryRpcAwaits \cup BareAwaits
    /\ Throws(rejectionOf(pc), pc)
    /\ UNCHANGED <<fn, operand, stakePool, validators, amount, walletPublicKey, ledger,
                   currEpoch, currentEpoch, stakeAccountLamports, actionBatch,
                   transactionSequence, batch, txStatus, res, submitted>>

\* The cluster enters the next epoch while the call is running.
Tick ==
    /\ ret = NotReturned
    /\ pc # "start"
    /\ ledger.epoch < MaxEpoch
    /\ ledger' = [ledger EXCEPT !.epoch = ledger.epoch + 1]
    /\ UNCHANGED <<fn, operand, stakePool, validators, amount, ret, walletPublicKey,
                   pc, currEpoch, currentEpoch, stakeAccountLamports,
                   actionBatch, transactionSequence, batch, txStatus, res,
                   submitted>>

Next ==
    \/ CheckWallet
    \/ GetParsedStakeAccount
    \/ GetParsedValidatorStakeAccount
    \/ GetStakePoolAccount
    \/ GetOrCreateAssociatedAddress
    \/ GetValidatorListAccount
    \/ GetWithdrawStakeTransactions
    \/ GetCurrentEpoch
    \/ UpdateTransactionSequence
    \/ SignAndSend
    \/ GetLatestBlockhash
    \/ SignAllTransactions
    \/ PartialSignAndSend
    \/ \E b \in 1..Len(txStatus) : \E k \in 1..Len(txStatus[b]) : Confirm(b, k)
    \/ \E b \in 1..Len(txStatus) : \E k \in 1..Len(txStatus[b]) : Reject(b, k)
    \/ BatchResolved
    \/ BatchRejected
    \/ AwaitRejected
    \/ Tick

Spec == Init /\ [][Next]_vars

(***************************************************************************)
(* Properties of the pure functions (CalcSpec)                             *)
(***************************************************************************)
Called(f) == fn = f /\ ret # NotReturned
DepositCalled == Called("calcSolDeposit") \/ Called("calcStakeDeposit")

RECURSIVE SumDropletsUnstaked(_)
SumDropletsUnstaked(receipts) ==
    IF receipts = <<>> THEN 0
    ELSE receipts[1].withdrawalReceipt.dropletsUnstaked
         + SumDropletsUnstaked(Tail(receipts))

\* C5: calcWithdrawals either returns receipts whose dropletsUnstaked sum
\* exactly to the requested amount, or throws WithdrawalUnserviceableError
\* with a non-empty reason; it never returns a plan for part of the request.
C5_SumOrUnserviceable ==
    Called("calcWithdrawals") =>
        \/ Returned(ret) /\ SumDropletsUnstaked(ret.val) = amount
        \/ ret.err = "WithdrawalUnserviceableError" /\ ret.reason # ""

\* What holds of every plan calcWithdrawals does return.
ReturnedPlanCoversRequest ==
    (Called("calcWithdrawals") /\ Returned(ret)) =>
        SumDropletsUnstaked(ret.val) = amount

\* C6: on an empty validator list calcWithdrawals returns, for every
\* requested amount, exactly one receipt, against the reserve account, with
\* dropletsUnstaked the full amount.
C6_EmptyListReserve ==
    (Called("calcWithdrawals") /\ validators = <<>>) =>
        /\ Returned(ret)
        /\ Len(ret.val) = 1
        /\ ret.val[1].stakeAccount = reserveStake
        /\ ret.val[1].withdrawalReceipt.dropletsUnstaked = amount

C6_Witness ==
    /\ Called("calcWithdrawals") /\ validators = <<>>
    /\ amount = ExampleReserveWithdrawal
    /\ Returned(ret)
    /\ ret.val[1].withdrawalReceipt.lamportsReceived > 0

TotalStake(v) == v.activeStakeLamports + v.transientStakeLamports
ByVote(vote) ==
    CHOOSE v \in {validators[k] : k \in 1..Len(validators)} :
        v.voteAccountAddress = vote

\* The lightest validator: the first of the list among those of least
\* total stake.
Lightest ==
    LET i == CHOOSE k \in 1..Len(validators) :
                 /\ \A j \in 1..Len(validators) :
                        TotalStake(validators[j]) >= TotalStake(validators[k])
                 /\ \A j \in 1..(k - 1) :
                        TotalStake(validators[j]) > TotalStake(validators[k])
    IN  validators[i]

\* The droplets the lightest validator can service.
LightestServiceable ==
    estDropletsUnstakedByWithdrawal(stakeAvailableToWithdraw(Lightest).lamports,
                                    stakePool)

ReceiptsAscending ==
    \A i, j \in 1..Len(ret.val) :
        i < j => TotalStake(ByVote(ret.val[i].stakeAccount.vote))
                     <= TotalStake(ByVote(ret.val[j].stakeAccount.vote))

SoleReceiptTargetsLightest ==
    /\ Returned(ret)
    /\ Len(ret.val) = 1
    /\ ret.val[1].stakeAccount.vote = Lightest.voteAccountAddress
    /\ ret.val[1].withdrawalReceipt.dropletsUnstaked = amount

SmallRequest ==
    /\ Called("calcWithdrawals") /\ validators # <<>>
    /\ Returned(LightestServiceable)
    /\ amount < LightestServiceable.val

DepositFeeOf == IF fn = "calcSolDeposit" THEN stakePool.solDepositFee
                ELSE stakePool.stakeDepositFee
ReferralFeeOf == IF fn = "calcSolDeposit" THEN stakePool.solReferralFee
                 ELSE stakePool.stakeReferralFee

\* C8: with totalStaked > 0 and tokenSupply > 0, calcDeposit returns
\* minted = floor(lamportsIn * tokenSupply / totalStaked), the fee
\* floor(numerator * minted / denominator) (0 without a fee), the referral
\* fee floor(fee * referralPercent / 100) <= fee and received = minted - fee;
\* 500 lamports into the 1:1 zero-fee pool give 500 droplets and no fee, 1000
\* lamports into the 1:1 pool with fee 1/100 give fee 10 and 990 received.
C8_DepositFormula ==
    (DepositCalled /\ stakePool.totalStakeLamports > 0
                   /\ stakePool.poolTokenSupply > 0) =>
        LET minted == (amount * stakePool.poolTokenSupply)
                          \div stakePool.totalStakeLamports
            fee == IF DepositFeeOf.numerator = 0 \/ DepositFeeOf.denominator = 0
                   THEN 0
                   ELSE (DepositFeeOf.numerator * minted) \div DepositFeeOf.denominator
        IN  /\ Returned(ret)
            /\ ret.val.lamportsStaked = amount
            /\ ret.val.dropletsFeePaid = fee
            /\ ret.val.referralFeePaid = (fee * ReferralFeeOf) \div 100
            /\ ret.val.referralFeePaid <= ret.val.dropletsFeePaid
            /\ ret.val.dropletsReceived = minted - fee
            /\ (stakePool \in ExamplePools /\ DepositFeeOf = NoFee /\ amount = 500)
                   => ret.val.dropletsReceived = 500 /\ ret.val.dropletsFeePaid = 0
            /\ (stakePool \in ExamplePools /\ DepositFeeOf = OnePercent /\ amount = 1000)
                   => ret.val.dropletsReceived = 990 /\ ret.val.dropletsFeePaid = 10

C8_Witness ==
    /\ Called("calcSolDeposit")
    /\ stakePool \in ExamplePools /\ stakePool.solDepositFee = OnePercent
    /\ amount = 1000
    /\ Returned(ret)
    /\ ret.val.dropletsReceived = 990

\* C9: when totalStaked = 0 or tokenSupply = 0, calcSolDeposit and
\* calcStakeDeposit price the deposit 1:1 (minted = lamportsIn) and return a
\* receipt rather than failing.
C9_ZeroPoolOneToOne ==
    (DepositCalled /\ (stakePool.totalStakeLamports = 0
                       \/ stakePool.poolTokenSupply = 0)) =>
        /\ Returned(ret)
        /\ ret.val.dropletsReceived + ret.val.dropletsFeePaid = amount

\* C10: calcWithdrawalReceipt(d, pool) returns dropletsUnstaked = d, the fee
\* floor(num * d / denom) (0 without a fee) and, with burnt = d - fee,
\* lamportsReceived = 0 when burnt * totalStaked < tokenSupply or
\* tokenSupply = 0 and ceil(burnt * totalStaked / tokenSupply) otherwise; the
\* zero result is a value, not an error.
C10_WithdrawalReceiptFormula ==
    Called("calcWithdrawalReceipt") =>
        LET wf == stakePool.withdrawalFee
            fee == IF wf.numerator # 0 /\ wf.denominator # 0
                   THEN (wf.numerator * amount) \div wf.denominator ELSE 0
            burnt == amount - fee
            x == burnt * stakePool.totalStakeLamports
            supply == stakePool.poolTokenSupply
        IN  /\ Returned(ret)
            /\ ret.val.dropletsUnstaked = amount
            /\ ret.val.dropletsFeePaid = fee
            /\ IF x < supply \/ supply = 0
               THEN ret.val.lamportsReceived = 0
               ELSE /\ ret.val.lamportsReceived * supply >= x
                    /\ (ret.val.lamportsReceived - 1) * supply < x

C10_Witness ==
    /\ Called("calcWithdrawalReceipt")
    /\ Returned(ret)
    /\ ret.val.dropletsFeePaid > 0
    /\ ret.val.lamportsReceived * stakePool.poolTokenSupply
           > (amount - ret.val.dropletsFeePaid) * stakePool.totalStakeLamports
    /\ ret.val.lamportsReceived > 1

\* C11 as stated: the lamports received never exceed the exact share
\* amount * totalStaked / tokenSupply.
C11_Original ==
    (Called("calcWithdrawalReceipt") /\ Returned(ret)
        /\ stakePool.poolTokenSupply > 0) =>
        ret.val.lamportsReceived * stakePool.poolTokenSupply
            <= amount * stakePool.totalStakeLamports

\* C11 amended: the lamports received never exceed what a pool without a
\* withdrawal fee pays for the amount: 0 when tokenSupply is 0 or
\* amount * totalStaked < tokenSupply, and the share rounded up,
\* ceil(amount * totalStaked / tokenSupply), otherwise.
C11_FeeNeverIncreasesPayout ==
    (Called("calcWithdrawalReceipt") /\ Returned(ret)) =>
        LET supply == stakePool.poolTokenSupply
            share == amount * stakePool.totalStakeLamports
        IN  IF supply = 0 \/ share < supply
            THEN ret.val.lamportsReceived = 0
            ELSE /\ ret.val.lamportsReceived >= 0
                 /\ (ret.val.lamportsReceived - 1) * supply < share

\* A fee was paid and made the payout smaller than the share rounded up.
C11_Witness ==
    /\ Called("calcWithdrawalReceipt")
    /\ Returned(ret)
    /\ ret.val.dropletsFeePaid > 0
    /\ ret.val.lamportsReceived > 0
    /\ ret.val.lamportsReceived * stakePool.poolTokenSupply
           < amount * stakePool.totalStakeLamports

\* C18: whenever some validator of the list has non-zero active stake, no
\* receipt returned by calcWithdrawals targets a transient stake account or
\* the reserve.
C18_TransientOnlyWithoutActive ==
    (Called("calcWithdrawals") /\ Returned(ret)
        /\ \E i \in 1..Len(validators) : validators[i].activeStakeLamports # 0) =>
        \A n \in 1..Len(ret.val) : ret.val[n].stakeAccount.kind = "active"

(***************************************************************************)
(* Properties of the builder and the executor (Spec)                       *)
(***************************************************************************)
Batches == 1..Len(txStatus)
TxsOf(b) == 1..Len(txStatus[b])
StatusOf(b, k) == txStatus[b][k].status

\* Transaction k of batch b has been prepared, signed or submitted.
Begun(b, k) == StatusOf(b, k) # "built"
BatchConfirmed(b) == \A k \in TxsOf(b) : StatusOf(b, k) = "confirmed"
SomeFailed == \E b \in Batches : \E k \in TxsOf(b) : StatusOf(b, k) = "failed"

\* submitted lists transactions of the sequence only, batch after batch
\* and in the order of their batch, each at most once.
SubmittedInSequenceOrder ==
    \A i \in 1..Len(submitted) :
        /\ submitted[i][1] \in Batches
        /\ submitted[i][2] \in TxsOf(submitted[i][1])
        /\ \A j \in (i + 1)..Len(submitted) :
              \/ submitted[i][1] < submitted[j][1]
              \/ submitted[i][1] = submitted[j][1] /\ submitted[i][2] < submitted[j][2]

\* C1: batches are processed in sequence order, and no transaction of a
\* batch is prepared, signed or submitted before every transaction of every
\* earlier batch has been confirmed, whatever the order in which the
\* transactions of a batch are confirmed.
C1_BatchBarrier ==
    /\ SubmittedInSequenceOrder
    /\ \A b \in Batches : \A k \in TxsOf(b) :
          Begun(b, k) => \A a \in 1..(b - 1) : BatchConfirmed(a)

\* A later batch is in flight behind a batch of two transactions.
C1_Witness ==
    \E b \in Batches :
        /\ b > 1
        /\ Len(txStatus[b - 1]) >= 2
        /\ \E k \in TxsOf(b) : StatusOf(b, k) = "sent"

\* C2 (state part): once a transaction of batch b has failed, no
\* transaction of a later batch has been prepared, signed or submitted, the
\* batches before b are confirmed, and all that was ever submitted are
\* transactions of the sequence, each once (no compensating operation).
FailureHalts ==
    \A b \in Batches : \A k \in TxsOf(b) :
        StatusOf(b, k) = "failed" =>
            /\ \A c \in (b + 1)..Len(txStatus) : \A j \in TxsOf(c) : ~Begun(c, j)
            /\ \A a \in 1..(b - 1) : BatchConfirmed(a)
            /\ SubmittedInSequenceOrder
            /\ pc \in {"awaitAll", "done"}
            /\ pc = "done" => Threw(ret)

\* C2 (step part): a confirmed transaction stays confirmed, and after a
\* failure nothing more is submitted.
FailureStep ==
    /\ \A b \in Batches : \A k \in TxsOf(b) :
          StatusOf(b, k) = "confirmed" =>
              /\ b \in 1..Len(txStatus')
              /\ k \in 1..Len(txStatus'[b])
              /\ txStatus'[b][k].status = "confirmed"
    /\ SomeFailed => submitted' = submitted

\* C2: if a transaction of batch i fails, signAndSendTransactionSequence
\* halts: no transaction of a batch after i is ever signed or submitted,
\* the batches before i stay confirmed, and no rollback is ever issued.
C2_FailureHalts == [](FailureHalts) /\ [][FailureStep]_vars

\* The call has thrown for a failure in a batch that is neither the first
\* nor the last of its sequence.
C2_Witness ==
    /\ Threw(ret)
    /\ \E b \in Batches :
          /\ 1 < b /\ b < Len(txStatus)
          /\ \E k \in TxsOf(b) : StatusOf(b, k) = "failed"

\* Per batch worked on, the signatures of the transactions confirmed.
RECURSIVE confirmedOf(_, _)
confirmedOf(b, k) ==
    IF k > Len(txStatus[b]) THEN <<>>
    ELSE (IF StatusOf(b, k) = "confirmed" THEN <<signatureOf(b, k)>> ELSE <<>>)
             \o confirmedOf(b, k + 1)
ConfirmedPerBatch == [b \in 1..batch |-> confirmedOf(b, 1)]

\* Per batch of the sequence, the signatures of all its transactions.
AllSignatures ==
    [b \in 1..Len(transactionSequence) |->
        [k \in 1..Len(transactionSequence[b]) |-> signatureOf(b, k)]]

\* C3 as stated: when a transaction has failed, the caller is still given,
\* per batch, the signatures of exactly the transactions that succeeded.
C3_Original ==
    (SomeFailed /\ ret # NotReturned) =>
        /\ Returned(ret)
        /\ transactionSignatures(fn, ret.val) = ConfirmedPerBatch

\* C3 amended: the call resolves only when every transaction of every
\* batch is confirmed, and then with the signatures of all of them, batch by
\* batch; when a transaction has failed the call throws an RpcError, which
\* carries no signature.
C3_SignaturesOnlyOnSuccess ==
    /\ (pc = "done" /\ Returned(ret)) =>
          /\ ~SomeFailed
          /\ \A b \in Batches : BatchConfirmed(b)
          /\ transactionSignatures(fn, ret.val) = AllSignatures
    /\ (SomeFailed /\ ret # NotReturned) =>
          ret = Throw("RpcError", "sendAndConfirmRawTransaction")

\* The call threw for a failed transaction although signatures of confirmed
\* batches had been collected.
C3_Witness ==
    /\ SomeFailed
    /\ Threw(ret)
    /\ res # <<>>

ActionKinds == {"depositSol", "depositStake", "withdrawStake"}
RefreshKinds == {"updateValidatorListBalance", "updateStakePoolBalance"}
KindsOf(transactions) == {transactions[i].kind : i \in 1..Len(transactions)}

\* A *Transactions builder has returned its sequence.
Built ==
    /\ fn \in ActionKinds
    /\ pc \notin {"start", "none"}
    /\ transactionSequence # <<>>

\* C4: the builders prepend refresh batches iff the lastUpdateEpoch of the
\* pool snapshot is strictly behind the epoch read; the action batch is the
\* last batch of every built sequence, and the only one when the snapshot
\* is not stale.
C4_RefreshIffStale ==
    Built =>
        LET n == Len(transactionSequence)
        IN  /\ transactionSequence[n] = actionBatch
            /\ KindsOf(actionBatch) \subseteq {fn}
            /\ \A b \in 1..(n - 1) :
                  /\ transactionSequence[b] # <<>>
                  /\ KindsOf(transactionSequence[b]) \subseteq RefreshKinds
            /\ n > 1 <=> stakePool.lastUpdateEpoch < currEpoch

\* A withdrawal built on a stale snapshot: two refresh batches, then the
\* withdraw batch.
C4_Witness ==
    /\ Built
    /\ fn = "withdrawStake"
    /\ stakePool.lastUpdateEpoch < currEpoch
    /\ Len(transactionSequence) = 3
    /\ actionBatch # <<>>

\* The positions <<batch, index>> of the transactions of the built sequence.
Positions ==
    UNION {{<<b, k>> : k \in 1..Len(transactionSequence[b])} :
               b \in 1..Len(transactionSequence)}
TxAt(p) == transactionSequence[p[1]][p[2]]
PositionsOf(kind) == {p \in Positions : TxAt(p).kind = kind}
BatchesOf(kind) == {p[1] : p \in PositionsOf(kind)}

\* The per-validator refresh transactions of the built sequence.
ValidatorRefreshes == PositionsOf("updateValidatorListBalance")

\* The snapshot is stale and no validator of the list read has been
\* updated for the epoch the refresh is built for.
StaleNoneUpdated ==
    /\ Built
    /\ stakePool.lastUpdateEpoch < currEpoch
    /\ \A i \in 1..Len(validators) : validators[i].lastUpdateEpoch < currentEpoch

CeilDiv(a, b) == (a + b - 1) \div b

\* The action batch is not begun before every per-validator refresh
\* transaction is confirmed.
ActionAfterValidatorRefreshes ==
    \A k \in 1..(IF txStatus = <<>> THEN 0 ELSE Len(txStatus[Len(txStatus)])) :
        Begun(Len(txStatus), k) =>
            \A p \in ValidatorRefreshes : StatusOf(p[1], p[2]) = "confirmed"

\* C12 as stated: for N validators none of which is updated, the builder
\* emits ceil(N/5) per-validator refresh batches.
C12_Original ==
    StaleNoneUpdated =>
        /\ Cardinality(BatchesOf("updateValidatorListBalance"))
              = CeilDiv(Len(validators), MAX_VALIDATORS_TO_UPDATE)
        /\ ActionAfterValidatorRefreshes

\* C12 amended: for a stale snapshot and N validators none of which is
\* updated, the builder emits ceil(N/5) per-validator refresh transactions,
\* each covering at most 5 validators, all of them in one batch, the first
\* of the sequence (no such batch when N = 0); the action batch is the last
\* batch, and no transaction of it is prepared, signed or submitted before
\* all of them are confirmed.
C12_RefreshTransactionsPerFive ==
    StaleNoneUpdated =>
        /\ Cardinality(ValidatorRefreshes)
              = CeilDiv(Len(validators), MAX_VALIDATORS_TO_UPDATE)
        /\ \A p \in ValidatorRefreshes :
              /\ p[1] = 1
              /\ Len(TxAt(p).votes) \in 1..MAX_VALIDATORS_TO_UPDATE
        /\ BatchesOf("updateValidatorListBalance") \subseteq {1}
        /\ Len(transactionSequence) > 1
        /\ transactionSequence[Len(transactionSequence)] = actionBatch
        /\ KindsOf(actionBatch) \cap RefreshKinds = {}
        /\ ActionAfterValidatorRefreshes

\* Six validators, none updated: two refresh transactions in one batch, and
\* the action batch has been submitted.
C12_Witness ==
    /\ StaleNoneUpdated
    /\ Len(validators) > MAX_VALIDATORS_TO_UPDATE
    /\ Cardinality(ValidatorRefreshes) = 2
    /\ txStatus # <<>>
    /\ \E k \in TxsOf(Len(txStatus)) : StatusOf(Len(txStatus), k) = "sent"

\* The builder went through updateTransactionSequence.
RefreshBuilt == Built /\ stakePool.lastUpdateEpoch < currEpoch

\* The validator-list indices (1-based) a refresh transaction covers.
Covered(tx) == (tx.startIndex + 1)..(tx.startIndex + Len(tx.votes))
Updated(i) == validators[i].lastUpdateEpoch >= currentEpoch

BatchesWith(instruction) ==
    {p[1] : p \in {q \in Positions :
                      \E n \in 1..Len(TxAt(q).instructions) :
                          TxAt(q).instructions[n] = instruction}}

\* C14 as stated: the pool aggregate refresh and the removed-validator
\* cleanup are in separate batches, the cleanup after the aggregate refresh.
C14_Original ==
    RefreshBuilt =>
        /\ BatchesWith("updateStakePoolBalance") # {}
        /\ BatchesWith("cleanupRemovedValidators") # {}
        /\ \A u \in BatchesWith("updateStakePoolBalance") :
              \A c \in BatchesWith("cleanupRemovedValidators") : u < c

\* C14 amended: an emitted refresh phase is, in this order, one batch with
\* all per-validator refresh transactions (absent when there is none), then
\* one batch with one transaction that carries updateStakePoolBalance
\* followed by cleanupRemovedValidators, then the action batch. The pool
\* update transaction is not begun before every per-validator refresh is
\* confirmed, and the action batch is not begun before it is confirmed.
C14_RefreshStages ==
    RefreshBuilt =>
        LET n == Len(transactionSequence)
        IN  /\ n \in {2, 3}
            /\ Len(transactionSequence[n - 1]) = 1
            /\ transactionSequence[n - 1][1].instructions
                  = <<"updateStakePoolBalance", "cleanupRemovedValidators">>
            /\ BatchesWith("updateStakePoolBalance") = {n - 1}
            /\ BatchesWith("cleanupRemovedValidators") = {n - 1}
            /\ n = 3 <=> ValidatorRefreshes # {}
            /\ n = 3 => /\ transactionSequence[1] # <<>>
                        /\ KindsOf(transactionSequence[1])
                              = {"updateValidatorListBalance"}
            /\ BatchesOf("updateValidatorListBalance") \subseteq {n - 2}
            /\ txStatus # <<>> =>
                  /\ Begun(n - 1, 1) =>
                        \A p \in ValidatorRefreshes :
                            StatusOf(p[1], p[2]) = "confirmed"
                  /\ \A k \in TxsOf(n) :
                        Begun(n, k) => StatusOf(n - 1, 1) = "confirmed"

\* The pool update transaction is in flight behind a confirmed batch of
\* per-validator refreshes.
C14_Witness ==
    /\ RefreshBuilt
    /\ Len(transactionSequence) = 3
    /\ txStatus # <<>>
    /\ StatusOf(2, 1) = "sent"

SubmitsActionBatch ==
    /\ pc = "partialSign"
    /\ pc' = "awaitAll"
    /\ batch = Len(transactionSequence)
    /\ actionBatch # <<>>

PoolBehindOnLedger == ledger.stakePool.lastUpdateEpoch < ledger.epoch

\* C16: in every execution of depositSol / depositStake / withdrawStake,
\* also when the ledger epoch advances at a suspension point, the action
\* batch is never submitted while the pool's lastUpdateEpoch on the ledger
\* is behind the epoch of the ledger.
C16_ActionNeverSubmittedStale ==
    [][SubmitsActionBatch => ~PoolBehindOnLedger]_vars

\* The droplets carried by the withdraw operations of a batch, in order.
DropletsOf(withdrawals) ==
    [i \in 1..Len(withdrawals) |-> withdrawals[i].dropletsUnstaked]

\* The droplets of the plan calcWithdrawals computes from the snapshot
\* the builder holds.
PlanOfSnapshot ==
    LET plan == calcWithdrawals(amount, stakePool, validators)
    IN  IF Returned(plan)
        THEN [i \in 1..Len(plan.val) |-> plan.val[i].withdrawalReceipt.dropletsUnstaked]
        ELSE <<>>

\* C17: in withdrawStakeTransactions, when the pool's lastUpdateEpoch is
\* behind the current epoch, the droplet amounts carried by the withdraw
\* operations of the action batch are not the ones calcWithdrawals computes
\* from the pre-refresh snapshot.
C17_NoStaleComputation ==
    (Built /\ fn = "withdrawStake" /\ actionBatch # <<>>
        /\ stakePool.lastUpdateEpoch < currEpoch) =>
        DropletsOf(withdrawalsOf(actionBatch)) # PlanOfSnapshot

\* No remote call has left a trace: nothing was read from the ledger, no
\* blockhash fetched, no signature added, nothing submitted.
NoRemoteCallMade ==
    /\ stakePool = Unread
    /\ validators = <<>>
    /\ currEpoch = 0
    /\ currentEpoch = 0
    /\ stakeAccountLamports = 0
    /\ fn \in ActionKinds => actionBatch = <<>> /\ transactionSequence = <<>>
    /\ submitted = <<>>
    /\ \A b \in Batches : \A k \in TxsOf(b) : txStatus[b][k] = builtTransaction

\* C19: when the wallet adapter's publicKey is null, depositSol,
\* depositStake, withdrawStake and signAndSendTransactionSequence throw
\* WalletPublicKeyUnavailableError, and no ledger read, signature request or
\* submission is ever made.
C19_NullWalletFailsFast ==
    walletPublicKey = "null" =>
        /\ NoRemoteCallMade
        /\ pc \in {"start", "signAndSend", "done"}
        /\ pc = "done" <=> ret = Throw("WalletPublicKeyUnavailableError", "")
        /\ pc # "done" => ret = NotReturned

\* signAndSendTransactionSequence threw for a null publicKey, holding a
\* sequence of three batches.
C19_Witness ==
    /\ walletPublicKey = "null"
    /\ fn = "signAndSendTransactionSequence"
    /\ Len(transactionSequence) = 3
    /\ ret = Throw("WalletPublicKeyUnavailableError", "")

\* The awaits of the builder and the executor that read from or write to
\* the ledger (signAllTransactions asks the wallet, not the ledger).
LedgerAwaits ==
    ((TryRpcAwaits \cup BareAwaits) \ {"signAllTransactions"})
        \cup {"sendAndConfirmRawTransaction"}

\* C20: every failed read from or write to the ledger made while building
\* or executing a sequence reaches the caller as an RpcError.
C20_LedgerFailuresAreRpcErrors ==
    (Threw(ret) /\ ret.reason \in LedgerAwaits) => ret.err = "RpcError"

\* Every transaction handed to sendAndConfirmRawTransaction is one of the
\* sequence, and none is handed over twice.
SubmittedAtMostOnce ==
    /\ \A i \in 1..Len(submitted) :
           /\ submitted[i][1] \in 1..Len(transactionSequence)
           /\ submitted[i][2] \in 1..Len(transactionSequence[submitted[i][1]])
    /\ \A i, j \in 1..Len(submitted) : i # j => submitted[i] # submitted[j]

\* A remote call has failed: a submitted transaction was rejected, or the
\* call has thrown.
RemoteCallFailed == SomeFailed \/ Threw(ret)

\* After a failure nothing more is submitted, and what was thrown stays.
NoResubmission ==
    RemoteCallFailed =>
        /\ submitted' = submitted
        /\ Threw(ret) => ret' = ret

\* The WithdrawalUnserviceableError the caller gets is the one calcWithdrawals
\* threw on the one snapshot read, and nothing was built or submitted.
UnserviceablePropagates ==
    (fn = "withdrawStake" /\ ret.err = "WithdrawalUnserviceableError") =>
        /\ ret = calcWithdrawals(amount, stakePool, validators)
        /\ pc = "done"
        /\ actionBatch = <<>>
        /\ transactionSequence = <<>>
        /\ submitted = <<>>

\* C21: the SDK never retries. Within one call of
\* signAndSendTransactionSequence each transaction of the sequence is
\* submitted at most once, nothing is submitted after a remote-call failure,
\* and a WithdrawalUnserviceableError of calcWithdrawals reaches the caller
\* unchanged, the allocation being computed once.
C21_NeverRetries ==
    /\ [](SubmittedAtMostOnce /\ UnserviceablePropagates)
    /\ [][NoResubmission]_vars

\* A refresh batch went through, a transaction of the next batch was
\* rejected and the call threw, every transaction submitted once.
C21_Witness ==
    /\ ret = Throw("RpcError", "sendAndConfirmRawTransaction")
    /\ batch > 1
    /\ SomeFailed
    /\ Len(submitted) > 1

\* withdrawStakeTransactions has built its withdraw batch.
WithdrawBuilt ==
    /\ fn = "withdrawStake"
    /\ Built \/ pc \in {"getCurrentEpoch", "updateGetCurrentEpoch"}

\* The receipts getWithdrawStakeTransactions was given.
ReceiptsOfSnapshot == calcWithdrawals(amount, stakePool, validators).val

\* C22: getWithdrawStakeTransactions creates for every receipt of the plan
\* one fresh destination stake account and one withdraw operation for that
\* receipt's dropletsUnstaked; the transaction carrying the withdraw has
\* that account's keypair among its signers; every transaction carries at
\* most MAX_WITHDRAWALS_PER_TX withdrawals; every receipt appears in exactly
\* one transaction, in plan order; and as many stake accounts are returned
\* as there are receipts.
C22_WithdrawTransactions ==
    WithdrawBuilt =>
        LET receipts == ReceiptsOfSnapshot
            withdrawals == withdrawalsOf(actionBatch)
        IN  /\ Len(withdrawals) = Len(receipts)
            /\ \A i \in 1..Len(receipts) :
                   /\ withdrawals[i].stakeSplitFrom = receipts[i].stakeAccount
                   /\ withdrawals[i].dropletsUnstaked
                          = receipts[i].withdrawalReceipt.dropletsUnstaked
            /\ \A i, j \in 1..Len(withdrawals) :
                   i # j => withdrawals[i].stakeSplitTo # withdrawals[j].stakeSplitTo
            /\ \A t \in 1..Len(actionBatch) :
                   /\ Len(actionBatch[t].withdrawals) \in 1..MAX_WITHDRAWALS_PER_TX
                   /\ Len(actionBatch[t].instructions) = 2 * Len(actionBatch[t].withdrawals)
                   /\ \A n \in 1..Len(actionBatch[t].withdrawals) :
                          \E s \in 1..Len(actionBatch[t].signers) :
                              actionBatch[t].signers[s]
                                  = actionBatch[t].withdrawals[n].stakeSplitTo
            /\ newStakeAccounts(receipts)
                   = [i \in 1..Len(withdrawals) |-> withdrawals[i].stakeSplitTo]
            /\ (pc = "done" /\ Returned(ret)) =>
                   Len(ret.val.stakeAccounts) = Len(receipts)

\* A plan of more than MAX_WITHDRAWALS_PER_TX receipts went into two
\* transactions, and the call returned one stake account per receipt.
C22_Witness ==
    /\ WithdrawBuilt
    /\ Len(ReceiptsOfSnapshot) > MAX_WITHDRAWALS_PER_TX
    /\ Len(actionBatch) = 2
    /\ pc = "done" /\ Returned(ret)
    /\ Len(ret.val.stakeAccounts) = Len(ReceiptsOfSnapshot)

(***************************************************************************)
(* Properties of the Numberu64 methods (CalcSpec)                          *)
(***************************************************************************)
\* C23: for all non-negative a and all b > 0, ceilDiv(a, b) * b >= a and
\* ceilDiv(a, b) * b < a + b; ceilDiv(7, 3) = 3, ceilDiv(9, 3) = 3 and
\* ceilDiv(0, 5) = 0.
C23_CeilDiv ==
    (Called("ceilDiv") /\ operand > 0) =>
        /\ Returned(ret)
        /\ ret.val * operand >= amount
        /\ ret.val * operand < amount + operand
        /\ (amount = 7 /\ operand = 3) => ret.val = 3
        /\ (amount = 9 /\ operand = 3) => ret.val = 3
        /\ (amount = 0 /\ operand = 5) => ret.val = 0

\* ceilDiv(7, 3) was computed, and rounded up.
C23_Witness ==
    /\ Called("ceilDiv")
    /\ amount = 7 /\ operand = 3
    /\ ret = Ok(3)

\* satSub is 0 when the subtrahend is at least the value, and the exact
\* difference otherwise.
SatSubClamps ==
    Called("satSub") =>
        ret = Ok(IF operand >= amount THEN 0 ELSE amount - operand)

\* The quantities of the receipts of the fee functions are not negative,
\* and what the caller receives is the exact difference of what was minted
\* (or unstaked) and the fee.
FeeQuantitiesExact ==
    /\ (DepositCalled /\ Returned(ret)) =>
           LET minted == (amount * stakePool.poolTokenSupply)
                             \div stakePool.totalStakeLamports
           IN  /\ ret.val.dropletsFeePaid >= 0
               /\ ret.val.referralFeePaid >= 0
               /\ ret.val.dropletsReceived >= 0
               /\ ret.val.dropletsReceived = minted - ret.val.dropletsFeePaid
    /\ (Called("calcWithdrawalReceipt") /\ Returned(ret)) =>
           /\ ret.val.dropletsFeePaid >= 0
           /\ ret.val.lamportsReceived >= 0
           /\ ret.val.dropletsUnstaked - ret.val.dropletsFeePaid >= 0

\* C24 as stated: subtracting a larger Numberu64 from a smaller one with sub
\* fails instead of yielding a negative or altered value; satSub clamps at
\* 0; no quantity of the fee functions is negative or changed in magnitude.
C24_Original ==
    /\ (Called("sub") /\ amount < operand) => Threw(ret)
    /\ (Called("sub") /\ amount >= operand) => ret = Ok(amount - operand)
    /\ SatSubClamps
    /\ FeeQuantitiesExact

\* C24 as amended: sub is the signed subtraction of BN, which never fails
\* and yields the negative difference when the subtrahend is the larger;
\* satSub clamps at 0; for pools whose fees are below 1 no quantity of the
\* fee functions is negative or changed in magnitude.
C24_SubSignedSatSubClamps ==
    /\ Called("sub") => ret = Ok(amount - operand)
    /\ SatSubClamps
    /\ FeeQuantitiesExact

\* sub took 2 from 1 and returned -1.
C24_Witness ==
    /\ Called("sub")
    /\ amount = 1 /\ operand = 2
    /\ ret = Ok(-1)

(***************************************************************************)
(* Properties of the available-lamports rule (CalcSpec)                    *)
(***************************************************************************)
\* The validator stakeAvailableToWithdraw was applied to.
TheValidator == validators[1]
ReservedOfTransient == STAKE_ACCOUNT_RENT_EXEMPT_LAMPORTS + MIN_ACTIVE_STAKE_LAMPORTS

\* Without active stake the transient account is the target, with what it
\* holds above rent exemption and the retained minimum, clamped at zero.
TransientRule ==
    TheValidator.activeStakeLamports = 0 =>
        /\ ret.val.stakeAccount
               = getValidatorTransientStakeAccount(TheValidator.voteAccountAddress)
        /\ ret.val.lamports =
               IF TheValidator.transientStakeLamports <= ReservedOfTransient THEN 0
               ELSE TheValidator.transientStakeLamports - ReservedOfTransient

\* C25 as stated: with non-zero active stake the target is the active stake
\* account and the available amount is activeStake above the retained
\* minimum (zero at or below it); with zero active stake the target is the
\* transient account, with transientStake minus rent exemption and retained
\* minimum, clamped at zero; the transient account of a validator with
\* active stake is never the target.
C25_Original ==
    Called("stakeAvailableToWithdraw") =>
        /\ TheValidator.activeStakeLamports # 0 =>
               /\ ret.val.stakeAccount
                      = getValidatorStakeAccount(TheValidator.voteAccountAddress)
               /\ ret.val.lamports =
                      IF TheValidator.activeStakeLamports <= MIN_ACTIVE_STAKE_LAMPORTS
                      THEN 0
                      ELSE TheValidator.activeStakeLamports - MIN_ACTIVE_STAKE_LAMPORTS
        /\ TransientRule

\* C25 as amended: with non-zero active stake the target is the active
\* stake account and the available amount is the whole of
\* activeStakeLamports, nothing being retained from it; the transient rule
\* is as stated; the transient account of a validator with active stake is
\* never the target.
C25_AvailableLamportsRule ==
    Called("stakeAvailableToWithdraw") =>
        /\ TheValidator.activeStakeLamports # 0 =>
               /\ ret.val.stakeAccount
                      = getValidatorStakeAccount(TheValidator.voteAccountAddress)
               /\ ret.val.lamports = TheValidator.activeStakeLamports
        /\ TransientRule

\* A validator with one lamport of active stake, below the retained
\* minimum, and transient stake: the active account, one lamport available.
C25_Witness ==
    /\ Called("stakeAvailableToWithdraw")
    /\ TheValidator.activeStakeLamports = 1
    /\ TheValidator.transientStakeLamports > ReservedOfTransient
    /\ ret.val = [lamports     |-> 1,
                  stakeAccount |-> getValidatorStakeAccount(TheValidator.voteAccountAddress)]

(***************************************************************************)
(* Properties of the receipts of calcWithdrawals (CalcSpec)                *)
(***************************************************************************)
\* The lamports available in the stake account a receipt targets.
AvailableIn(stakeAccount) ==
    LET v == ByVote(stakeAccount.vote)
    IN  IF stakeAccount.kind = "active" THEN v.activeStakeLamports
        ELSE IF v.transientStakeLamports <= ReservedOfTransient THEN 0
        ELSE v.transientStakeLamports - ReservedOfTransient

\* C26: every receipt calcWithdrawals returns for a non-empty validator list
\* has lamportsReceived at most the lamports available in the stake account
\* it targets; a call that aborts returns no receipts, not even those
\* accumulated before the abort.
C26_ReceiptsWithinAvailable ==
    (Called("calcWithdrawals") /\ validators # <<>>) =>
        /\ Returned(ret) =>
               \A i \in 1..Len(ret.val) :
                   ret.val[i].withdrawalReceipt.lamportsReceived
                       <= AvailableIn(ret.val[i].stakeAccount)
        /\ ~Returned(ret) =>
               /\ Threw(ret)
               /\ DOMAIN ret = {"err", "reason"}

\* A plan of two receipts, the first taking all its stake account holds.
C26_Witness ==
    /\ Called("calcWithdrawals") /\ validators # <<>>
    /\ Returned(ret)
    /\ Len(ret.val) = 2
    /\ ret.val[1].withdrawalReceipt.lamportsReceived
           = AvailableIn(ret.val[1].stakeAccount)
    /\ ret.val[2].withdrawalReceipt.lamportsReceived > 0

(***************************************************************************)
(* Properties of the order inside a batch (Spec)                           *)
(***************************************************************************)
Signed(b, k) == Len(txStatus[b][k].signatures) > 0
WalletSigned(b, k) == Signed(b, k) /\ txStatus[b][k].signatures[1] = walletKey
PartiallySigned(b, k) ==
    \E s \in 1..Len(txStatus[b][k].signatures) :
        txStatus[b][k].signatures[s] # walletKey
Submitted(b, k) == StatusOf(b, k) \in {"sent", "confirmed", "failed"}

\* C27: within one batch, the recent blockhash and the fee payer are set on
\* every transaction before any signature is added; the wallet has signed
\* all transactions of the batch before an additional signer signs one; and
\* no transaction is submitted before it carries the wallet's signature and
\* the signatures of the signers of its own entry.
C27_OrderInsideBatch ==
    \A b \in Batches :
        /\ (\E k \in TxsOf(b) : Signed(b, k)) =>
               \A j \in TxsOf(b) :
                   /\ txStatus[b][j].recentBlockhash = "blockhash"
                   /\ txStatus[b][j].feePayer = "wallet"
        /\ (\E k \in TxsOf(b) : PartiallySigned(b, k)) =>
               \A j \in TxsOf(b) : WalletSigned(b, j)
        /\ \A k \in TxsOf(b) :
               Submitted(b, k) =>
                   txStatus[b][k].signatures
                       = <<walletKey>> \o transactionSequence[b][k].signers

\* A withdraw batch of two transactions, each with the keypairs of its own
\* new stake accounts as signers, was submitted.
C27_Witness ==
    /\ fn = "withdrawStake"
    /\ batch > 0
    /\ batch = Len(transactionSequence)
    /\ Len(txStatus[batch]) = 2
    /\ Submitted(batch, 1) /\ Submitted(batch, 2)
    /\ Len(txStatus[batch][1].signatures) = 1 + MAX_WITHDRAWALS_PER_TX
    /\ txStatus[batch][2].signatures = <<walletKey, Keypair("stakeSplitTo", 5)>>

(***************************************************************************)
(* Properties of tryServiceWithdrawal (CalcSpec)                           *)
(***************************************************************************)
\* C28: for every pool with totalStakeLamports > 0 and a withdrawal fee
\* below 1, every available amount L and every requested amount d, the
\* receipt for min(d, estDropletsUnstakedByWithdrawal(L)) has
\* lamportsReceived <= L; so tryServiceWithdrawal never aborts for a
\* rounding error, and calcWithdrawals fails only for too many transient
\* stake accounts.
C28_RoundingAbortUnreachable ==
    /\ (Called("tryServiceWithdrawal") /\ stakePool.totalStakeLamports > 0) =>
           LET est == estDropletsUnstakedByWithdrawal(operand, stakePool)
               serviced == IF amount < est.val THEN amount ELSE est.val
           IN  /\ Returned(est)
               /\ calcWithdrawalReceipt(serviced, stakePool).val.lamportsReceived
                      <= operand
               /\ Returned(ret)
               /\ ret.val.dropletsUnstaked = serviced
               /\ ret.val.lamportsReceived <= operand
    /\ (Called("tryServiceWithdrawal") \/ Called("calcWithdrawals")) =>
           ~(Threw(ret) /\ ret.reason = RoundingReason)
    /\ (Called("calcWithdrawals") /\ stakePool.totalStakeLamports > 0
            /\ ~Returned(ret)) =>
           ret = Throw("WithdrawalUnserviceableError", TransientReason)

\* A request above what the account can service, with a fee: the receipt
\* takes all the account holds.
C28_Witness ==
    /\ Called("tryServiceWithdrawal")
    /\ hasFee(stakePool.withdrawalFee)
    /\ Returned(ret)
    /\ amount > ret.val.dropletsUnstaked
    /\ ret.val.dropletsFeePaid > 0
    /\ ret.val.lamportsReceived = operand
    /\ operand > 0

(***************************************************************************)
(* Properties of updateValidatorListBalanceTransactions (Spec)             *)
(***************************************************************************)
RefreshesCovering(i) == {p \in ValidatorRefreshes : i \in Covered(TxAt(p))}

\* C29: every validator whose lastUpdateEpoch is behind the current epoch
\* is covered by exactly one refresh transaction; each refresh transaction
\* covers a contiguous run of at most MAX_VALIDATORS_TO_UPDATE entries of
\* the list beginning at the startIndex it carries; the runs of different
\* transactions do not overlap and follow each other in ascending index
\* order; and the loop ends for every list, an empty or fully updated list
\* yielding no transaction.
C29_RefreshCoverage ==
    /\ RefreshBuilt =>
           /\ \A i \in 1..Len(validators) :
                  ~Updated(i) => Cardinality(RefreshesCovering(i)) = 1
           /\ \A p \in ValidatorRefreshes :
                  LET tx == TxAt(p)
                  IN  /\ Len(tx.votes) \in 1..MAX_VALIDATORS_TO_UPDATE
                      /\ Covered(tx) \subseteq 1..Len(validators)
                      /\ \A n \in 1..Len(tx.votes) :
                             tx.votes[n] = validators[tx.startIndex + n].voteAccountAddress
           /\ \A p, q \in ValidatorRefreshes :
                  p # q =>
                      /\ Covered(TxAt(p)) \cap Covered(TxAt(q)) = {}
                      /\ p[1] = q[1]
                      /\ p[2] < q[2] =>
                             TxAt(p).startIndex + Len(TxAt(p).votes) <= TxAt(q).startIndex
           /\ Cardinality(ValidatorRefreshes)
                  <= CeilDiv(Len(validators), MAX_VALIDATORS_TO_UPDATE)
           /\ (\A i \in 1..Len(validators) : Updated(i)) => ValidatorRefreshes = {}
    /\ pc = "updateGetCurrentEpoch" => ENABLED UpdateTransactionSequence

\* Two refresh transactions for a list of more than
\* MAX_VALIDATORS_TO_UPDATE validators, of which the first and the last are
\* behind and one in between is not.
C29_Witness ==
    /\ RefreshBuilt
    /\ Len(validators) > MAX_VALIDATORS_TO_UPDATE
    /\ Cardinality(ValidatorRefreshes) = 2
    /\ ~Updated(1) /\ Updated(2) /\ ~Updated(Len(validators))
    /\ RefreshesCovering(2) # {}

(***************************************************************************)
(* Properties of the end of a call (Spec)                                  *)
(***************************************************************************)
InFlight(b, k) == StatusOf(b, k) = "sent"

\* C30: when signAndSendTransactionSequence has returned or thrown, no
\* transaction it submitted is still in flight; in particular, when it has
\* thrown because a transaction of a batch failed, every other transaction
\* of that batch is confirmed or failed, so that none takes effect on the
\* ledger after the caller has seen the failure.
C30_NothingInFlightAtReturn ==
    ret # NotReturned => \A b \in Batches : \A k \in TxsOf(b) : ~InFlight(b, k)

\* After the call has returned or thrown, the ledger executes nothing more
\* of what the call submitted.
NoEffectAfterReturn ==
    [][ret # NotReturned => ledger' = ledger]_vars

====
